---------------------------- MODULE Spec2Model ----------------------------
(***************************************************************************)
(* BTC signal monitor: the two drivers of the repository                   *)
(*   main.py     BTCMonitor       (PatternDetector, Indicators,            *)
(*                                 SignalNotifier.notify, run_once, run)   *)
(*   monitor.py  BTCSignalMonitor (CandlePatternDetector,                  *)
(*                                 TechnicalIndicators, TradingConditions, *)
(*                                 SignalNotifier.send_signal,             *)
(*                                 check_and_signal, run)                  *)
(* Prices and volumes are integers.  A Python float quotient a/b is kept   *)
(* as the pair [num |-> a, den |-> b] and compared by cross                *)
(* multiplication, so every threshold test is the exact real comparison.   *)
(* Time is an integer number of seconds.                                   *)
(***************************************************************************)
EXTENDS Integers, Sequences, FiniteSets, TLC

VARIABLES
    program,           \* which entry point runs: "main" (main.py) or "monitor" (monitor.py)
    config,            \* the configuration dict given to the monitor's constructor
    now,               \* datetime.now(timezone.utc), in seconds
    pc,                \* where the driver loop stands
    wake,              \* the instant at which asyncio.sleep(interval) returns
    last_signal,       \* BTCMonitor.last_signal
    last_signal_time,  \* BTCSignalMonitor.last_signal_time
    tick,              \* what the current (or last) poll did
    pending,           \* sinks of the running notification still to be attempted
    delivered_ts,      \* timestamp of the last earlier signal a sink accepted
    input,             \* evaluator harness: the series and trading dict under test
    output,            \* evaluator harness: the result of the applied function
    bot                \* main.py TelegramBot and the updates Telegram holds for it

vars == <<program, config, now, pc, wake, last_signal, last_signal_time,
          tick, pending, delivered_ts, input, output, bot>>

None == -1

Max(a, b) == IF a >= b THEN a ELSE b
Min(a, b) == IF a <= b THEN a ELSE b
Abs(a) == IF a >= 0 THEN a ELSE -a

\* sum(xs) of a list of integers
RECURSIVE Sum(_)
Sum(xs) == IF xs = <<>> THEN 0 ELSE Head(xs) + Sum(Tail(xs))

\* xs[-k:], the last k elements (the whole list when it is shorter)
LastN(xs, k) == IF Len(xs) <= k THEN xs ELSE SubSeq(xs, Len(xs) - k + 1, Len(xs))

\* xs[:-1]
ButLast(xs) == IF xs = <<>> THEN <<>> ELSE SubSeq(xs, 1, Len(xs) - 1)

\* dict.get(key, default)
Get(d, key, default) == IF key \in DOMAIN d THEN d[key] ELSE default

\* exact comparisons of quotients num/den with den > 0
QLt(a, b) == a.num * b.den < b.num * a.den
QLe(a, b) == a.num * b.den <= b.num * a.den
QInt(n) == [num |-> n, den |-> 1]

(***************************************************************************)
(* Candle (exchanges.py and monitor.py hold the same dataclass)            *)
(***************************************************************************)
Candle(o, h, l, c, v) == [open |-> o, high |-> h, low |-> l, close |-> c, volume |-> v]

body(c) == Abs(c.close - c.open)
upper_wick(c) == c.high - Max(c.open, c.close)
lower_wick(c) == Min(c.open, c.close) - c.low
range(c) == c.high - c.low
is_bullish(c) == c.close > c.open
is_bearish(c) == c.close < c.open

(***************************************************************************)
(* main.py PatternDetector                                                 *)
(***************************************************************************)
\* lower_wick/body >= 2.0 and upper_wick/body < 0.5, with body > 0
PatternDetector_detect_hammer(c) ==
    IF body(c) = 0 THEN FALSE
    ELSE lower_wick(c) >= 2 * body(c) /\ 2 * upper_wick(c) < body(c)

PatternDetector_detect_engulfing(current, previous) ==
    /\ is_bearish(previous)
    /\ is_bullish(current)
    /\ current.open < previous.close
    /\ current.close > previous.open

\* the ratio test with no range = 0 short-circuit before it
PatternDetector_detect_pinbar_NoGuard(c) == 10 * lower_wick(c) >= 6 * range(c)

\* lower_wick/range >= 0.6
PatternDetector_detect_pinbar(c) ==
    IF range(c) = 0 THEN FALSE
    ELSE IF range(c) > 0 THEN 10 * lower_wick(c) >= 6 * range(c)
    ELSE 10 * lower_wick(c) <= 6 * range(c)

\* body/range < 0.1
PatternDetector_detect_doji(c) ==
    IF range(c) = 0 THEN FALSE
    ELSE IF range(c) > 0 THEN 10 * body(c) < range(c)
    ELSE 10 * body(c) > range(c)

PatternDetector_detect(candles) ==
    IF Len(candles) < 2 THEN "NONE"
    ELSE LET current == candles[Len(candles)]
             previous == candles[Len(candles) - 1]
         IN  IF PatternDetector_detect_engulfing(current, previous) THEN "BULLISH_ENGULFING"
             ELSE IF PatternDetector_detect_hammer(current) THEN "HAMMER"
             ELSE IF PatternDetector_detect_pinbar(current) THEN "PINBAR_BULLISH"
             ELSE IF PatternDetector_detect_doji(current) THEN "DOJI"
             ELSE "NONE"

(***************************************************************************)
(* monitor.py CandlePatternDetector                                        *)
(***************************************************************************)
\* lower_wick/body >= 2.0, upper_wick/body < 1.0, lower_wick > upper_wick
CandlePatternDetector_detect_hammer(c) ==
    IF body(c) = 0 THEN FALSE
    ELSE /\ lower_wick(c) >= 2 * body(c)
         /\ upper_wick(c) < body(c)
         /\ lower_wick(c) > upper_wick(c)

CandlePatternDetector_detect_bullish_engulfing(current, previous) ==
    /\ is_bearish(previous)
    /\ is_bullish(current)
    /\ current.open < previous.close
    /\ current.close > previous.open

CandlePatternDetector_detect_bearish_engulfing(current, previous) ==
    /\ is_bullish(previous)
    /\ is_bearish(current)
    /\ current.open > previous.close
    /\ current.close < previous.open

CandlePatternDetector_detect_doji(c) ==
    IF range(c) = 0 THEN FALSE
    ELSE IF range(c) > 0 THEN 10 * body(c) < range(c)
    ELSE 10 * body(c) > range(c)

\* lower_wick_ratio >= 0.6 and body_position >= 0.6
\* a body-position test that measures the top of the body instead of its bottom
CandlePatternDetector_detect_pinbar_bullish_BodyTop(c) ==
    IF range(c) = 0 THEN FALSE
    ELSE 10 * (Max(c.open, c.close) - c.low) >= 6 * range(c)

CandlePatternDetector_detect_pinbar_bullish(c) ==
    IF range(c) = 0 THEN FALSE
    ELSE LET lower_wick_ok == IF range(c) > 0 THEN 10 * lower_wick(c) >= 6 * range(c)
                              ELSE 10 * lower_wick(c) <= 6 * range(c)
             body_position_ok == IF range(c) > 0
                                 THEN 10 * (Min(c.open, c.close) - c.low) >= 6 * range(c)
                                 ELSE 10 * (Min(c.open, c.close) - c.low) <= 6 * range(c)
         IN  lower_wick_ok /\ body_position_ok

\* the same chain with the hammer tested before the bearish engulfing
CandlePatternDetector_detect_pattern_HammerFirst(candles) ==
    IF Len(candles) < 2 THEN "NONE"
    ELSE LET current == candles[Len(candles)]
             previous == candles[Len(candles) - 1]
         IN  IF CandlePatternDetector_detect_bullish_engulfing(current, previous)
               THEN "BULLISH_ENGULFING"
             ELSE IF CandlePatternDetector_detect_hammer(current) THEN "HAMMER"
             ELSE IF CandlePatternDetector_detect_bearish_engulfing(current, previous)
               THEN "BEARISH_ENGULFING"
             ELSE IF CandlePatternDetector_detect_pinbar_bullish(current) THEN "PINBAR_BULLISH"
             ELSE IF CandlePatternDetector_detect_doji(current) THEN "DOJI"
             ELSE "NONE"

CandlePatternDetector_detect_pattern(candles) ==
    IF Len(candles) < 2 THEN "NONE"
    ELSE LET current == candles[Len(candles)]
             previous == candles[Len(candles) - 1]
         IN  IF CandlePatternDetector_detect_bullish_engulfing(current, previous)
               THEN "BULLISH_ENGULFING"
             ELSE IF CandlePatternDetector_detect_bearish_engulfing(current, previous)
               THEN "BEARISH_ENGULFING"
             ELSE IF CandlePatternDetector_detect_hammer(current) THEN "HAMMER"
             ELSE IF CandlePatternDetector_detect_pinbar_bullish(current) THEN "PINBAR_BULLISH"
             ELSE IF CandlePatternDetector_detect_doji(current) THEN "DOJI"
             ELSE "NONE"


(***************************************************************************)
(* Indicators (main.py) and TechnicalIndicators (monitor.py).  An          *)
(* Optional[float] result is [some, num, den]: None is some = FALSE.       *)
(***************************************************************************)
NoneQ == [some |-> FALSE, num |-> 0, den |-> 1]
SomeQ(n, d) == [some |-> TRUE, num |-> n, den |-> d]

\* Python truthiness of an Optional[float]: None and 0.0 are both false
Truthy(q) == q.some /\ q.num /= 0

\* an average taken over whatever prices there are, with no length test
Indicators_sma_NoGuard(prices, period) == SomeQ(Sum(LastN(prices, period)), period)

Indicators_sma(prices, period) ==
    IF Len(prices) < period THEN NoneQ
    ELSE SomeQ(Sum(LastN(prices, period)), period)

\* an rsi whose length test admits exactly `period` prices
Indicators_rsi_OffByOne(prices, period) ==
    IF Len(prices) < period THEN NoneQ ELSE SomeQ(100, 1)

\* 100 - 100/(1 + avg_gain/avg_loss) = 100*avg_gain/(avg_gain + avg_loss)
Indicators_rsi(prices, period) ==
    IF Len(prices) < period + 1 THEN NoneQ
    ELSE LET gains == [i \in 1..(Len(prices) - 1) |-> Max(0, prices[i + 1] - prices[i])]
             losses == [i \in 1..(Len(prices) - 1) |-> Max(0, -(prices[i + 1] - prices[i]))]
             avg_gain == Sum(LastN(gains, period))
             avg_loss == Sum(LastN(losses, period))
         IN  IF avg_loss = 0 THEN SomeQ(100, 1)
             ELSE SomeQ(100 * avg_gain, avg_gain + avg_loss)

TechnicalIndicators_sma(prices, period) ==
    IF Len(prices) < period THEN NoneQ
    ELSE SomeQ(Sum(LastN(prices, period)), period)

TechnicalIndicators_rsi(prices, period) ==
    IF Len(prices) < period + 1 THEN NoneQ
    ELSE LET change(i) == prices[i + 1] - prices[i]
             gains == [i \in 1..(Len(prices) - 1) |-> IF change(i) >= 0 THEN change(i) ELSE 0]
             losses == [i \in 1..(Len(prices) - 1) |-> IF change(i) >= 0 THEN 0 ELSE Abs(change(i))]
             avg_gain == Sum(LastN(gains, period))
             avg_loss == Sum(LastN(losses, period))
         IN  IF avg_loss = 0 THEN SomeQ(100, 1)
             ELSE SomeQ(100 * avg_gain, avg_gain + avg_loss)

\* max(c.high for c in candles), min(c.low for c in candles) of a non-empty list
MaxHigh(candles) == CHOOSE h \in {candles[i].high : i \in DOMAIN candles} :
                        \A i \in DOMAIN candles : candles[i].high <= h
MinLow(candles) == CHOOSE l \in {candles[i].low : i \in DOMAIN candles} :
                        \A i \in DOMAIN candles : candles[i].low >= l

\* the two levels check_long_conditions reads, as quotients over 1000
TechnicalIndicators_fibonacci_levels(high, low) ==
    [f382 |-> SomeQ(high * 1000 - (high - low) * 382, 1000),
     f236 |-> SomeQ(high * 1000 - (high - low) * 236, 1000)]

(***************************************************************************)
(* Program constants of the evaluators                                     *)
(***************************************************************************)
MinCandles == 50
RsiPeriod == 14
DefaultEntryZoneMin == 94200
DefaultEntryZoneMax == 94500
DefaultMinConditions == 4
DefaultMinConfidence == 60
DefaultStopLoss == 93000
DefaultTp1 == 95800
DefaultTp2 == 97000
DefaultTp3 == 98500

bullish_patterns == {"HAMMER", "BULLISH_ENGULFING", "PINBAR_BULLISH"}

\* the list c.close for c in candles
Closes(candles) == [i \in DOMAIN candles |-> candles[i].close]
Volumes(candles) == [i \in DOMAIN candles |-> candles[i].volume]

\* the result tuple (should_signal, conditions, confidence, pattern), or raised
Result(s, c, conf, p) ==
    [raised |-> FALSE, should_signal |-> s, conditions |-> c, confidence |-> conf, pattern |-> p]
Raised == [raised |-> TRUE, should_signal |-> FALSE, conditions |-> <<>>,
           confidence |-> 0, pattern |-> "NONE"]

\* the final test without its pattern conjunct
ShouldSignalMain_NoPattern(n_conditions, confidence, pattern, min_cond, min_conf) ==
    /\ n_conditions >= min_cond
    /\ confidence >= min_conf

\* the final test with a strict confidence comparison
ShouldSignalMonitor_Strict(n_conditions, confidence, pattern, min_conditions, min_confidence) ==
    /\ n_conditions >= min_conditions
    /\ confidence > min_confidence
    /\ pattern \in bullish_patterns

\* the final test of both evaluators: count, confidence and pattern together
ShouldSignalMain(n_conditions, confidence, pattern, min_cond, min_conf) ==
    /\ n_conditions >= min_cond
    /\ confidence >= min_conf
    /\ pattern \in bullish_patterns

ShouldSignalMonitor(n_conditions, confidence, pattern, min_conditions, min_confidence) ==
    /\ n_conditions >= min_conditions
    /\ confidence >= min_confidence
    /\ pattern \in bullish_patterns

(***************************************************************************)
(* main.py BTCMonitor.check_conditions(candles, price)                     *)
(***************************************************************************)
MainPatternWeight(pattern) ==
    IF pattern \in bullish_patterns THEN 25 ELSE IF pattern = "DOJI" THEN 10 ELSE 0

MainRsiStep(rsi) ==
    IF ~Truthy(rsi) THEN [c |-> <<>>, w |-> 0]
    ELSE IF QLe(QInt(30), rsi) /\ QLe(rsi, QInt(50)) THEN [c |-> <<"rsi_support">>, w |-> 15]
    ELSE IF QLt(QInt(50), rsi) /\ QLt(rsi, QInt(70)) THEN [c |-> <<"rsi_neutral">>, w |-> 5]
    ELSE [c |-> <<>>, w |-> 0]

BTCMonitor_check_conditions(trading, candles, price) ==
    LET closes == Closes(candles)
        entry_min == Get(trading, "entry_zone_min", DefaultEntryZoneMin)
        entry_max == Get(trading, "entry_zone_max", DefaultEntryZoneMax)
        zone == IF entry_min <= price /\ price <= entry_max
                THEN [c |-> <<"entry_zone">>, w |-> 25] ELSE [c |-> <<>>, w |-> 0]
        pattern == PatternDetector_detect(candles)
        pat == IF pattern \in bullish_patterns THEN [c |-> <<"pattern">>, w |-> MainPatternWeight(pattern)]
               ELSE IF pattern = "DOJI" THEN [c |-> <<"doji">>, w |-> MainPatternWeight(pattern)]
               ELSE [c |-> <<>>, w |-> 0]
        sma7 == Indicators_sma(closes, 7)
        sma21 == Indicators_sma(closes, 21)
        above == IF Truthy(sma7) /\ Truthy(sma21) /\ QLt(sma21, QInt(price))
                 THEN [c |-> <<"above_sma21">>, w |-> 15] ELSE [c |-> <<>>, w |-> 0]
        trend == IF Truthy(sma7) /\ Truthy(sma21) /\ QLt(sma21, sma7)
                 THEN [c |-> <<"trend_up">>, w |-> 10] ELSE [c |-> <<>>, w |-> 0]
        rsi == MainRsiStep(Indicators_rsi(closes, RsiPeriod))
        volumes == Volumes(LastN(candles, 10))
        n_prev == Len(ButLast(volumes))
        sum_prev == Sum(ButLast(volumes))
        \* avg_vol > 0 and candles[-1].volume > avg_vol * 1.2, avg_vol = sum_prev/n_prev
        vol == IF Len(volumes) > 1 /\ sum_prev > 0
                  /\ candles[Len(candles)].volume * n_prev * 5 > sum_prev * 6
               THEN [c |-> <<"volume">>, w |-> 10] ELSE [c |-> <<>>, w |-> 0]
        conditions == zone.c \o pat.c \o above.c \o trend.c \o rsi.c \o vol.c
        confidence == zone.w + pat.w + above.w + trend.w + rsi.w + vol.w
        min_cond == Get(trading, "min_conditions", DefaultMinConditions)
        min_conf == Get(trading, "min_confidence", DefaultMinConfidence)
    IN  Result(ShouldSignalMain(Len(conditions), confidence, pattern, min_cond, min_conf),
               conditions, confidence, pattern)

(***************************************************************************)
(* monitor.py TradingConditions.check_long_conditions(candles, price)      *)
(***************************************************************************)
MonitorRsiStep(rsi) ==
    IF ~Truthy(rsi) THEN [c |-> <<>>, w |-> 0]
    ELSE IF QLe(QInt(40), rsi) /\ QLe(rsi, QInt(60)) THEN [c |-> <<"rsi_neutral">>, w |-> 10]
    ELSE IF QLe(QInt(30), rsi) /\ QLt(rsi, QInt(40)) THEN [c |-> <<"rsi_support">>, w |-> 15]
    ELSE [c |-> <<>>, w |-> 0]

MonitorNotOverboughtStep(rsi) ==
    IF Truthy(rsi) /\ QLt(rsi, QInt(70)) THEN [c |-> <<"not_overbought">>, w |-> 5]
    ELSE [c |-> <<>>, w |-> 0]

TradingConditions_check_long_conditions(trading, candles, current_price) ==
    IF candles = <<>> THEN Raised                \* max() of an empty sequence
    ELSE IF Len(candles) = 1 THEN Raised         \* sum(...) / len(recent_volumes[:-1]) with len 0
    ELSE
    LET closes == Closes(candles)
        recent == LastN(candles, 50)
        fib_levels == TechnicalIndicators_fibonacci_levels(MaxHigh(recent), MinLow(recent))
        entry_zone_min == IF "entry_zone_min" \in DOMAIN trading
                          THEN QInt(trading["entry_zone_min"]) ELSE fib_levels.f382
        entry_zone_max == IF "entry_zone_max" \in DOMAIN trading
                          THEN QInt(trading["entry_zone_max"]) ELSE fib_levels.f236
        zone == IF QLe(entry_zone_min, QInt(current_price)) /\ QLe(QInt(current_price), entry_zone_max)
                THEN [c |-> <<"entry_zone">>, w |-> 20] ELSE [c |-> <<>>, w |-> 0]
        pattern == CandlePatternDetector_detect_pattern(candles)
        pat == IF pattern \in bullish_patterns THEN [c |-> <<"pattern">>, w |-> 25]
               ELSE IF pattern = "DOJI" THEN [c |-> <<"doji">>, w |-> 10]
               ELSE [c |-> <<>>, w |-> 0]
        sma_7 == TechnicalIndicators_sma(closes, 7)
        sma_21 == TechnicalIndicators_sma(closes, 21)
        sma_50 == TechnicalIndicators_sma(closes, 50)
        smas == Truthy(sma_7) /\ Truthy(sma_21) /\ Truthy(sma_50)
        above == IF smas /\ QLt(sma_21, QInt(current_price))
                 THEN [c |-> <<"above_sma21">>, w |-> 15] ELSE [c |-> <<>>, w |-> 0]
        trend == IF smas /\ QLt(sma_21, sma_7) /\ QLt(sma_50, sma_21)
                 THEN [c |-> <<"trend_up">>, w |-> 15] ELSE [c |-> <<>>, w |-> 0]
        rsi_value == TechnicalIndicators_rsi(closes, RsiPeriod)
        rsi == MonitorRsiStep(rsi_value)
        recent_volumes == Volumes(LastN(candles, 10))
        n_prev == Len(ButLast(recent_volumes))
        sum_prev == Sum(ButLast(recent_volumes))
        current_volume == candles[Len(candles)].volume
        \* current_volume > avg_volume * 1.2 with avg_volume = sum_prev/n_prev
        spike == current_volume * n_prev * 5 > sum_prev * 6
        vol == IF spike THEN [c |-> <<"volume">>, w |-> 10] ELSE [c |-> <<>>, w |-> 0]
        notover == MonitorNotOverboughtStep(rsi_value)
        conditions_met == zone.c \o pat.c \o above.c \o trend.c \o rsi.c \o vol.c \o notover.c
        confidence == zone.w + pat.w + above.w + trend.w + rsi.w + vol.w + notover.w
        min_conditions == Get(trading, "min_conditions", DefaultMinConditions)
        min_confidence == Get(trading, "min_confidence", DefaultMinConfidence)
    IN  IF spike /\ sum_prev = 0 THEN Raised     \* current_volume/avg_volume in the f-string
        ELSE Result(ShouldSignalMonitor(Len(conditions_met), confidence, pattern,
                                        min_conditions, min_confidence),
                    conditions_met, confidence, pattern)

(***************************************************************************)
(* Market data: the candle series an exchange's get_candles can return.    *)
(* A series is named by a descriptor [kind, n, hvol, last, cvol]: n        *)
(* candles, the first n-2 following the history `kind` with volume hvol,   *)
(* the last two being the pair `last`; every candle but the current one    *)
(* has volume hvol, the current one cvol.                                  *)
(***************************************************************************)
HistClose(kind, m, i) ==
    IF kind = "flat" THEN 94340
    ELSE IF kind = "rise" THEN 94340 - 10 * (m - i)
    ELSE IF kind = "fall" THEN 94340 + 10 * (m - i)
    ELSE IF kind = "zigzag" THEN 94340 + (IF i % 2 = 1 THEN 20 ELSE 0)
    ELSE \* "pullback": a plateau, a jump, then a decline in steps of -80, +40
         IF i <= m - 13 THEN 93000
         ELSE LET k == i - (m - 13) IN 94620 - 20 * k + (IF k % 2 = 1 THEN 60 ELSE 0)

HistCandle(kind, m, i, hvol) ==
    LET c == HistClose(kind, m, i)
        o == IF i > 1 THEN HistClose(kind, m, i - 1) ELSE c
    IN  Candle(o, Max(o, c), Min(o, c), c, hvol)

FlatPrev == Candle(94340, 94340, 94340, 94340, 100)

\* <<previous, current>> for each named shape of the last two candles
LastTwo(name) ==
    IF name = "engulf" THEN
        <<Candle(94330, 94335, 94295, 94300, 100), Candle(94290, 94352, 94270, 94350, 100)>>
    ELSE IF name = "hammer" THEN          \* hammer for both detectors, pinbar geometry too
        <<FlatPrev, Candle(94340, 94352, 94300, 94350, 100)>>
    ELSE IF name = "hammer_mon" THEN      \* upper wick between 0.5 and 1 body
        <<FlatPrev, Candle(94340, 94357, 94300, 94350, 100)>>
    ELSE IF name = "ham_engulf" THEN      \* hammer and pinbar geometry, bullish engulfing
        <<Candle(94348, 94349, 94340, 94345, 100), Candle(94340, 94352, 94300, 94350, 100)>>
    ELSE IF name = "ham_bear" THEN        \* hammer and pinbar geometry, bearish engulfing
        <<Candle(94342, 94349, 94341, 94348, 100), Candle(94350, 94352, 94300, 94340, 100)>>
    ELSE IF name = "doji" THEN
        <<FlatPrev, Candle(94350, 94370, 94330, 94351, 100)>>
    ELSE IF name = "flatc" THEN           \* open = high = low = close
        <<FlatPrev, Candle(94350, 94350, 94350, 94350, 100)>>
    ELSE IF name = "pinbar" THEN          \* body 0, long lower wick
        <<FlatPrev, Candle(94350, 94360, 94300, 94350, 100)>>
    ELSE IF name = "hammer_2x" THEN       \* lower wick = 2 body, upper wick 0.7 body
        <<FlatPrev, Candle(94340, 94357, 94320, 94350, 100)>>
    ELSE IF name = "bear" THEN            \* a falling candle after a flat one
        <<FlatPrev, Candle(94340, 94345, 94320, 94330, 100)>>
    ELSE \* "none": a full-bodied bullish candle after a flat one
        <<FlatPrev, Candle(94300, 94350, 94300, 94350, 100)>>

Series(d) ==
    IF d.n < 2 THEN <<>>
    ELSE LET m == d.n - 2
             lt == LastTwo(d.last)
             prev == [lt[1] EXCEPT !.volume = d.hvol]
             cur == [lt[2] EXCEPT !.volume = d.cvol]
         IN  [i \in 1..d.n |-> IF i <= m THEN HistCandle(d.kind, m, i, d.hvol)
                               ELSE IF i = m + 1 THEN prev ELSE cur]

Kinds == {"flat", "rise", "fall", "zigzag", "pullback"}
LastNames == {"engulf", "hammer", "hammer_mon", "ham_engulf", "ham_bear",
              "doji", "flatc", "pinbar", "bear", "hammer_2x", "none"}

(***************************************************************************)
(* Trading configuration: config["trading"], a dict                        *)
(***************************************************************************)
\* load_config() with no environment variable set
TradingFromEnv ==
    [entry_zone_min |-> 94200, entry_zone_max |-> 94500, stop_loss |-> 93000,
     tp1 |-> 95800, tp2 |-> 97000, tp3 |-> 98500,
     min_conditions |-> 4, min_confidence |-> 60]

TRADING_PRESETS ==
    [conservative |->
        [entry_zone_min |-> 94200, entry_zone_max |-> 94500, stop_loss |-> 93000,
         tp1 |-> 95500, tp2 |-> None, tp3 |-> None,
         min_conditions |-> 5, min_confidence |-> 75],
     moderate |->
        [entry_zone_min |-> 94200, entry_zone_max |-> 94500, stop_loss |-> 93000,
         tp1 |-> 95800, tp2 |-> 97000, tp3 |-> None,
         min_conditions |-> 4, min_confidence |-> 60],
     aggressive |->
        [entry_zone_min |-> 94000, entry_zone_max |-> 94800, stop_loss |-> 92500,
         tp1 |-> 96500, tp2 |-> 98000, tp3 |-> 100000,
         min_conditions |-> 3, min_confidence |-> 50],
     scalp |->
        [entry_zone_min |-> 95100, entry_zone_max |-> 95300, stop_loss |-> 94700,
         tp1 |-> 96200, tp2 |-> None, tp3 |-> None,
         min_conditions |-> 3, min_confidence |-> 50]]

\* MIN_CONDITIONS=0 and MIN_CONFIDENCE=0 in the environment: thresholds always met
TradingNoThreshold == [TradingFromEnv EXCEPT !.min_conditions = 0, !.min_confidence = 0]

\* a config with no "trading" key: config.get("trading", {})
TradingEmpty == [k \in {} |-> 0]

\* the keys load_config() puts in config["trading"]
TradingKeys == {"entry_zone_min", "entry_zone_max", "stop_loss", "tp1", "tp2", "tp3",
                "min_conditions", "min_confidence"}

\* an update that lets a null value of the argument leave the old value in place
DictUpdate_SkipNone(d, e) ==
    [k \in DOMAIN d \cup DOMAIN e |->
        IF k \in DOMAIN e /\ (k \notin DOMAIN d \/ e[k] /= None) THEN e[k] ELSE d[k]]

\* d.update(e)
DictUpdate(d, e) ==
    [k \in DOMAIN d \cup DOMAIN e |-> IF k \in DOMAIN e THEN e[k] ELSE d[k]]

\* os.getenv("TRADING_PRESET"): unset, empty, a known name or an unknown one
PresetUnset == "<unset>"
PresetNames == {PresetUnset, "", "conservative", "moderate", "aggressive", "scalp",
                "turbo", "Moderate"}

\* main(): if preset and preset in TRADING_PRESETS:
\*             config["trading"].update(TRADING_PRESETS[preset])
Main_ApplyPreset(trading, preset) ==
    IF preset /= PresetUnset /\ preset /= "" /\ preset \in DOMAIN TRADING_PRESETS
    THEN DictUpdate(trading, TRADING_PRESETS[preset])
    ELSE trading

\* STOP_LOSS set at, and above, the midpoint of the default entry zone
TradingStopAtMid == [TradingFromEnv EXCEPT !.stop_loss = 94350]
TradingStopAboveMid == [TradingFromEnv EXCEPT !.stop_loss = 94400]

(***************************************************************************)
(* Bounds of the model                                                     *)
(***************************************************************************)
MaxTime == 5          \* the clock runs from 0 to MaxTime
Cooldown == 3         \* config["signal_cooldown"], in clock units
CheckInterval == 1    \* config["check_interval"], in clock units

(***************************************************************************)
(* Notification sinks                                                      *)
(***************************************************************************)
\* config["notifications"]: for each key, whether it holds a non-empty value
Notifications ==
    [webhook_url : BOOLEAN, telegram_token : BOOLEAN, telegram_chat_id : BOOLEAN,
     discord_webhook : BOOLEAN, n8n_webhook : BOOLEAN]

\* main.py SignalNotifier.notify: the sinks it attempts, in order
NotifySinks(n) ==
    (IF n.webhook_url THEN <<"webhook">> ELSE <<>>)
    \o (IF n.telegram_token /\ n.telegram_chat_id THEN <<"telegram">> ELSE <<>>)
    \o (IF n.discord_webhook THEN <<"discord">> ELSE <<>>)
    \o (IF n.n8n_webhook THEN <<"n8n">> ELSE <<>>)

\* monitor.py SignalNotifier.send_signal: the sinks it attempts, in order
SendSignalSinks(n) ==
    (IF n.webhook_url THEN <<"webhook">> ELSE <<>>)
    \o (IF n.telegram_token /\ n.telegram_chat_id THEN <<"telegram">> ELSE <<>>)
    \o (IF n.discord_webhook THEN <<"discord">> ELSE <<>>)
    \o (IF n.n8n_webhook THEN <<"n8n">> ELSE <<>>)

\* what can happen to one sink's HTTP post: the sink answers with a success
\* status, answers with another status, or the post raises (unreachable)
SinkOutcomes == {"accepted", "rejected", "raised"}

\* main.py _webhook/_telegram/_discord/_n8n: try: return success status;
\* except Exception: return False
SinkReturns(outcome) == outcome = "accepted"

\* monitor.py _send_webhook/_send_telegram/_send_discord/_send_n8n: the same
SendSinkReturns(outcome) == outcome = "accepted"

\* a notifier that gives up at the first sink that fails
NotifyRemaining_StopOnFailure(todo, ok) == IF ok THEN Tail(todo) ELSE <<>>

\* a notifier that returns as soon as one sink succeeded
NotifyRemaining_StopOnSuccess(todo, ok) == IF ok THEN <<>> ELSE Tail(todo)

\* main.py notify: the sinks still to attempt after one returned ok; the
\* `if` statements follow one another whatever results holds
NotifyRemaining(todo, ok) == Tail(todo)

\* monitor.py send_signal: the same
SendSignalRemaining(todo, ok) == Tail(todo)

\* any(results), all(results) of a list of [sink, ok, outcome]
AnyOk(results) == \E i \in DOMAIN results : results[i].ok
AllOk(results) == \A i \in DOMAIN results : results[i].ok

\* main.py: return any(results) if results else False
NotifyResult(results) == IF results /= <<>> THEN AnyOk(results) ELSE FALSE

\* monitor.py: return all(results) if results else False
SendSignalResult(results) == IF results /= <<>> THEN AllOk(results) ELSE FALSE

(***************************************************************************)
(* The cooldown gate                                                       *)
(***************************************************************************)
\* a gate that forgets the equality case: elapsed <= cooldown
RunOnceCooling_Le(last, t, cooldown) == last /= None /\ t - last <= cooldown

\* a gate that reopens one second early
RunOnceCooling_Early(last, t, cooldown) == last /= None /\ t - last < cooldown - 1

\* main.py run_once: if self.last_signal: elapsed = now - last_signal; elapsed < cooldown
RunOnceCooling(last, t, cooldown) == last /= None /\ t - last < cooldown

\* monitor.py check_and_signal: the same test on last_signal_time
CheckAndSignalCooling(last, t, cooldown) == last /= None /\ t - last < cooldown

\* a gate update that does not look at the notifier's answer
RunOnceLastSignal_Always(success, last, t) == t

\* main.py run_once: if success: self.last_signal = datetime.now(timezone.utc)
RunOnceLastSignal(success, last, t) == IF success THEN t ELSE last

\* monitor.py check_and_signal: if success: self.last_signal_time = datetime.now(...)
CheckAndSignalLastSignalTime(success, last, t) == IF success THEN t ELSE last

\* a data check that lets 49 candles through
RunOnceInsufficient_OffByOne(candles) == candles = <<>> \/ Len(candles) < MinCandles - 1

\* main.py run_once: if not candles or len(candles) < 50
RunOnceInsufficient(candles) == candles = <<>> \/ Len(candles) < MinCandles

\* monitor.py check_and_signal: if not candles or len(candles) < 50
CheckAndSignalInsufficient(candles) == candles = <<>> \/ Len(candles) < MinCandles

(***************************************************************************)
(* The record of one poll tick                                             *)
(***************************************************************************)
NoSeries == [kind |-> "flat", n |-> None, hvol |-> 0, last |-> "none", cvol |-> 0]

NoSignal == [built |-> FALSE, timestamp |-> None, pattern |-> "NONE",
             confidence |-> 0, conditions |-> <<>>,
             signal_type |-> "NONE", symbol |-> "", timeframe |-> "",
             entry_zone_min |-> NoneQ, entry_zone_max |-> NoneQ,
             stop_loss |-> None, take_profit_1 |-> None,
             take_profit_2 |-> None, take_profit_3 |-> None,
             current_price |-> None, risk_reward_ratio |-> NoneQ, notes |-> ""]

\* outcome: idle, cooling, fetching, insufficient, nofire, notifying, fired, raised
\* start: the instant of the cooldown check;  series: what get_candles returned
NoTick == [outcome |-> "idle", start |-> None, fetched |-> FALSE, series |-> NoSeries,
           evaluated |-> FALSE, signal |-> NoSignal, results |-> <<>>, success |-> FALSE]

\* a signal whose condition strings are sorted by weight, heaviest first
MakeSignal_ByWeight(r, t) ==
    LET W25(c) == c \in {"entry_zone", "pattern"}
        W15(c) == c \in {"above_sma21", "rsi_support"}
        W10(c) == c \in {"doji", "trend_up", "volume"}
        W5(c) == c \in {"rsi_neutral", "not_overbought"}
    IN  [NoSignal EXCEPT !.built = TRUE, !.timestamp = t, !.pattern = r.pattern,
                         !.confidence = r.confidence,
                         !.conditions = SelectSeq(r.conditions, W25)
                                          \o SelectSeq(r.conditions, W15)
                                          \o SelectSeq(r.conditions, W10)
                                          \o SelectSeq(r.conditions, W5)]

\* TradingSignal(...) as built by run_once / check_and_signal from the evaluation r
MakeSignal(r, t) == [NoSignal EXCEPT !.built = TRUE, !.timestamp = t, !.pattern = r.pattern,
                                     !.confidence = r.confidence,
                                     !.conditions = r.conditions]

\* the sum a + b of two quotients over their least common denominator
GCD(m, n) == LET RECURSIVE Euclid(_, _)
                 Euclid(x, y) == IF y = 0 THEN x ELSE Euclid(y, x % y)
             IN  Euclid(m, n)
QSum(a, b) == LET l == (a.den \div GCD(a.den, b.den)) * b.den
              IN  SomeQ(a.num * (l \div a.den) + b.num * (l \div b.den), l)

\* a ratio computed with no test of its denominator
RiskReward_NoGuard(entry_min, entry_max, stop, tp1) ==
    LET sum == QSum(entry_min, entry_max)
    IN  SomeQ(2 * sum.den * tp1 - sum.num, sum.num - 2 * sum.den * stop)

\* risk = (entry_min + entry_max)/2 - stop;  reward = tp1 - (entry_min + entry_max)/2;
\* rr = reward / risk if risk > 0 else 0.  entry_min, entry_max are quotients;
\* risk and reward are both carried over the denominator 2 * sum.den.
RiskReward(entry_min, entry_max, stop, tp1) ==
    LET sum == QSum(entry_min, entry_max)
        risk == sum.num - 2 * sum.den * stop
        reward == 2 * sum.den * tp1 - sum.num
    IN  IF risk > 0 THEN SomeQ(reward, risk) ELSE SomeQ(0, 1)

\* round(x, 2): the nearest multiple of 1/100, a tie going to the even one
Round2(q) ==
    LET k == (100 * q.num) \div q.den
        rem == 100 * q.num - k * q.den
        n == IF 2 * rem < q.den THEN k
             ELSE IF 2 * rem > q.den THEN k + 1
             ELSE IF k % 2 = 0 THEN k ELSE k + 1
    IN  SomeQ(n, 100)

\* datetime.isoformat(): the text of the instant, micro-seconds included
IsoFormat(t) == <<"isoformat", t>>

\* main.py TradingSignal.to_dict; an enum member's value is its own name
TradingSignal_to_dict(sig) ==
    [signal_type |-> sig.signal_type,
     symbol |-> sig.symbol,
     entry_zone |-> [min |-> sig.entry_zone_min, max |-> sig.entry_zone_max],
     stop_loss |-> sig.stop_loss,
     take_profits |-> [tp1 |-> sig.take_profit_1, tp2 |-> sig.take_profit_2,
                       tp3 |-> sig.take_profit_3],
     pattern |-> sig.pattern,
     confidence_score |-> sig.confidence,
     conditions_met |-> sig.conditions,
     timestamp |-> IsoFormat(sig.timestamp),
     timeframe |-> sig.timeframe,
     current_price |-> sig.current_price,
     risk_reward_ratio |-> Round2(sig.risk_reward_ratio),
     notes |-> sig.notes]

\* monitor.py TradingSignal.to_dict
Monitor_TradingSignal_to_dict(sig) ==
    [signal_type |-> sig.signal_type,
     symbol |-> sig.symbol,
     entry_zone |-> [min |-> sig.entry_zone_min, max |-> sig.entry_zone_max],
     stop_loss |-> sig.stop_loss,
     take_profits |-> [tp1 |-> sig.take_profit_1, tp2 |-> sig.take_profit_2,
                       tp3 |-> sig.take_profit_3],
     pattern |-> sig.pattern,
     confidence_score |-> sig.confidence,
     conditions_met |-> sig.conditions,
     timestamp |-> IsoFormat(sig.timestamp),
     timeframe |-> sig.timeframe,
     current_price |-> sig.current_price,
     risk_reward_ratio |-> Round2(sig.risk_reward_ratio),
     notes |-> sig.notes]

\* main.py run_once: the TradingSignal built from the evaluation r at instant t
BTCMonitor_TradingSignal(trading, candles, r, t) ==
    LET entry_min == SomeQ(Get(trading, "entry_zone_min", DefaultEntryZoneMin), 1)
        entry_max == SomeQ(Get(trading, "entry_zone_max", DefaultEntryZoneMax), 1)
        stop == Get(trading, "stop_loss", DefaultStopLoss)
        tp1 == Get(trading, "tp1", DefaultTp1)
    IN  [MakeSignal(r, t) EXCEPT
            !.signal_type = "LONG", !.symbol = "BTCUSD-PERP", !.timeframe = "1h",
            !.entry_zone_min = entry_min, !.entry_zone_max = entry_max,
            !.stop_loss = stop, !.take_profit_1 = tp1,
            !.take_profit_2 = Get(trading, "tp2", DefaultTp2),
            !.take_profit_3 = Get(trading, "tp3", DefaultTp3),
            !.current_price = candles[Len(candles)].close,
            !.risk_reward_ratio = RiskReward(entry_min, entry_max, stop, tp1),
            !.notes = "Pullback na zona dourada de Fibonacci"]

\* monitor.py check_and_signal: the entry zone defaults to the Fibonacci levels
\* of the last 50 candles; stop and targets are read in __init__
BTCSignalMonitor_TradingSignal(trading, candles, r, t) ==
    LET recent == LastN(candles, 50)
        fib == TechnicalIndicators_fibonacci_levels(MaxHigh(recent), MinLow(recent))
        entry_min == IF "entry_zone_min" \in DOMAIN trading
                     THEN SomeQ(trading["entry_zone_min"], 1) ELSE fib.f382
        entry_max == IF "entry_zone_max" \in DOMAIN trading
                     THEN SomeQ(trading["entry_zone_max"], 1) ELSE fib.f236
        stop == Get(trading, "stop_loss", DefaultStopLoss)
        tp1 == Get(trading, "tp1", DefaultTp1)
    IN  [MakeSignal(r, t) EXCEPT
            !.signal_type = "LONG", !.symbol = "BTCUSD-PERP", !.timeframe = "1h",
            !.entry_zone_min = entry_min, !.entry_zone_max = entry_max,
            !.stop_loss = stop, !.take_profit_1 = tp1,
            !.take_profit_2 = Get(trading, "tp2", DefaultTp2),
            !.take_profit_3 = Get(trading, "tp3", DefaultTp3),
            !.current_price = candles[Len(candles)].close,
            !.risk_reward_ratio = RiskReward(entry_min, entry_max, stop, tp1),
            !.notes = "Pullback na zona dourada de Fibonacci. ATR"]

\* a sink accepted the signal of the tick
Accepted(tk) == tk.signal.built /\ AnyOk(tk.results)

\* the series the exchange may return to the drivers
DriverSeries ==
    { [kind |-> "flat", n |-> 0, hvol |-> 100, last |-> "engulf", cvol |-> 200],
      [kind |-> "flat", n |-> 10, hvol |-> 100, last |-> "engulf", cvol |-> 200],
      [kind |-> "flat", n |-> 49, hvol |-> 100, last |-> "engulf", cvol |-> 200],
      [kind |-> "flat", n |-> 50, hvol |-> 100, last |-> "engulf", cvol |-> 200],
      [kind |-> "flat", n |-> 50, hvol |-> 100, last |-> "doji", cvol |-> 200],
      [kind |-> "flat", n |-> 50, hvol |-> 0, last |-> "hammer", cvol |-> 100] }

NoInput == [series |-> NoSeries, trading |-> TradingEmpty]
\* value, period: the Optional[float] an indicator returned and its period argument
NoOutput == [fn |-> "none", result |-> Raised, pattern |-> "NONE",
             value |-> NoneQ, period |-> 0, signal |-> NoSignal,
             preset |-> "", trading |-> TradingEmpty,
             dict |-> [k \in {} |-> 0],
             candle |-> Candle(0, 0, 0, 0, 0), flag |-> FALSE]

Gate == IF program = "main" THEN last_signal ELSE last_signal_time

(***************************************************************************)
(* main.py TelegramBot: state                                              *)
(***************************************************************************)
\* what _get_market_data last computed for an /analise command
NoAnalysis == [done |-> FALSE, should_signal |-> FALSE, armed |-> FALSE]

\* enabled: config["ai"]["telegram_commands_enabled"]; last_update_id as in
\* __init__; server: the updates Telegram holds, oldest first; batch: the
\* updates get_updates returned that poll has still to handle; processed: the
\* update ids handed to process_command so far
NoBot == [enabled |-> FALSE, last_update_id |-> 0, server |-> <<>>, batch |-> <<>>,
          processed |-> <<>>, analysis |-> NoAnalysis]

\* poll: if not self.token or not self.enabled: return
PollActive == config.notifications.telegram_token /\ bot.enabled

(***************************************************************************)
(* Initial state: a freshly constructed monitor at the top of its loop     *)
(***************************************************************************)
DriverTradings == {TradingFromEnv}

DriverConfigs ==
    [check_interval : {CheckInterval}, signal_cooldown : {Cooldown},
     trading : DriverTradings, notifications : Notifications]

Init ==
    /\ program \in {"main", "monitor"}
    /\ config \in DriverConfigs
    /\ now = 0
    /\ pc = "ready"
    /\ wake = 0
    /\ last_signal = None
    /\ last_signal_time = None
    /\ tick = NoTick
    /\ pending = <<>>
    /\ delivered_ts = None
    /\ input = NoInput
    /\ output = NoOutput
    /\ bot = NoBot

harness == <<input, output>>

\* the clock advances while the loop sleeps or awaits
Tick ==
    /\ now < MaxTime
    /\ now' = now + 1
    /\ UNCHANGED <<program, config, pc, wake, last_signal, last_signal_time,
                   tick, pending, delivered_ts, harness, bot>>

\* a tick returns to the loop, which goes to asyncio.sleep(interval)
EndTick(tk) ==
    /\ tick' = tk
    /\ pc' = "sleep"
    /\ wake' = now + config.check_interval
    /\ pending' = <<>>

\* delivered_ts at the start of a tick: fold in the tick that just ended
FoldDelivered == IF Accepted(tick) THEN tick.signal.timestamp ELSE delivered_ts

(***************************************************************************)
(* main.py: BTCMonitor.run and run_once                                    *)
(***************************************************************************)
\* a loop driven by a timer: the next run_once starts when the interval has
\* passed, whether or not the previous one has returned
Run_Wake_Overlapping ==
    /\ program = "main"
    /\ pc \in {"sleep", "fetch", "notify"}
    /\ now >= wake
    /\ pc' = "ready"
    /\ UNCHANGED <<program, config, now, wake, last_signal, last_signal_time,
                   tick, pending, delivered_ts, harness, bot>>

\* while True: ... await asyncio.sleep(self.interval); the next iteration
\* starts in telegram_bot.poll(), which returns at once when commands are off
Run_Wake ==
    /\ program = "main"
    /\ pc = "sleep"
    /\ now >= wake
    /\ pc' = IF PollActive THEN "poll" ELSE "ready"
    /\ UNCHANGED <<program, config, now, wake, last_signal, last_signal_time,
                   tick, pending, delivered_ts, harness, bot>>

\* run_once up to its first await: the cooldown check
RunOnce_Gate ==
    /\ program = "main"
    /\ pc = "ready"
    /\ delivered_ts' = FoldDelivered
    /\ IF RunOnceCooling(last_signal, now, config.signal_cooldown)
       THEN EndTick([NoTick EXCEPT !.outcome = "cooling", !.start = now])
       ELSE /\ tick' = [NoTick EXCEPT !.outcome = "fetching", !.start = now]
            /\ pc' = "fetch"
            /\ UNCHANGED <<wake, pending>>
    /\ UNCHANGED <<program, config, now, last_signal, last_signal_time, harness, bot>>

\* run_once from the return of get_candles to the next await or to its return
RunOnce_Candles ==
    /\ program = "main"
    /\ pc = "fetch"
    /\ \E d \in DriverSeries :
         LET candles == Series(d)
             fetched == [tick EXCEPT !.fetched = TRUE, !.series = d]
         IN  IF RunOnceInsufficient(candles)
             THEN EndTick([fetched EXCEPT !.outcome = "insufficient"])
             ELSE LET r == BTCMonitor_check_conditions(config.trading, candles,
                                                       candles[Len(candles)].close)
                      evaluated == [fetched EXCEPT !.evaluated = TRUE]
                      signal == BTCMonitor_TradingSignal(config.trading, candles, r, now)
                  IN  IF ~r.should_signal
                      THEN EndTick([evaluated EXCEPT !.outcome = "nofire"])
                      ELSE IF NotifySinks(config.notifications) = <<>>
                      THEN EndTick([evaluated EXCEPT !.outcome = "fired", !.signal = signal,
                                      !.success = NotifyResult(<<>>)])
                      ELSE /\ tick' = [evaluated EXCEPT !.outcome = "notifying",
                                                        !.signal = signal]
                           /\ pending' = NotifySinks(config.notifications)
                           /\ pc' = "notify"
                           /\ UNCHANGED wake
    /\ UNCHANGED <<program, config, now, last_signal, last_signal_time,
                   delivered_ts, harness, bot>>

\* a loop with no except clause: the exception ends run
RunOnce_CandlesRaise_Stops ==
    /\ program = "main"
    /\ pc = "fetch"
    /\ tick' = [tick EXCEPT !.outcome = "raised"]
    /\ pc' = "stopped"
    /\ UNCHANGED <<program, config, now, wake, pending, last_signal, last_signal_time,
                   delivered_ts, harness, bot>>

\* get_candles raises (CryptoComExchange has no try/except): run's except logs it
RunOnce_CandlesRaise ==
    /\ program = "main"
    /\ pc = "fetch"
    /\ EndTick([tick EXCEPT !.outcome = "raised"])
    /\ UNCHANGED <<program, config, now, last_signal, last_signal_time,
                   delivered_ts, harness, bot>>

\* notify: one sink's coroutine returns; after the last one, any(results) and
\* run_once's "if success: self.last_signal = now"
Notify_SinkDone ==
    /\ program = "main"
    /\ pc = "notify"
    /\ \E outcome \in SinkOutcomes :
         LET ok == SinkReturns(outcome)
             results == Append(tick.results,
                               [sink |-> Head(pending), ok |-> ok, outcome |-> outcome])
             success == NotifyResult(results)
             remaining == NotifyRemaining(pending, ok)
         IN  IF remaining /= <<>>
             THEN /\ tick' = [tick EXCEPT !.results = results]
                  /\ pending' = remaining
                  /\ UNCHANGED <<pc, wake, last_signal>>
             ELSE /\ EndTick([tick EXCEPT !.results = results, !.outcome = "fired",
                                          !.success = success])
                  /\ last_signal' = RunOnceLastSignal(success, last_signal, now)
    /\ UNCHANGED <<program, config, now, last_signal_time, delivered_ts, harness, bot>>

(***************************************************************************)
(* monitor.py: BTCSignalMonitor.run and check_and_signal                   *)
(***************************************************************************)
Monitor_Wake ==
    /\ program = "monitor"
    /\ pc = "sleep"
    /\ now >= wake
    /\ pc' = "ready"
    /\ UNCHANGED <<program, config, now, wake, last_signal, last_signal_time,
                   tick, pending, delivered_ts, harness, bot>>

CheckAndSignal_Gate ==
    /\ program = "monitor"
    /\ pc = "ready"
    /\ delivered_ts' = FoldDelivered
    /\ IF CheckAndSignalCooling(last_signal_time, now, config.signal_cooldown)
       THEN EndTick([NoTick EXCEPT !.outcome = "cooling", !.start = now])
       ELSE /\ tick' = [NoTick EXCEPT !.outcome = "fetching", !.start = now]
            /\ pc' = "fetch"
            /\ UNCHANGED <<wake, pending>>
    /\ UNCHANGED <<program, config, now, last_signal, last_signal_time, harness, bot>>

\* fetch_candles returns (an error inside it returns []); then the evaluation,
\* whose exception run's except logs
CheckAndSignal_Candles ==
    /\ program = "monitor"
    /\ pc = "fetch"
    /\ \E d \in DriverSeries :
         LET candles == Series(d)
             fetched == [tick EXCEPT !.fetched = TRUE, !.series = d]
         IN  IF CheckAndSignalInsufficient(candles)
             THEN EndTick([fetched EXCEPT !.outcome = "insufficient"])
             ELSE LET r == TradingConditions_check_long_conditions(
                               config.trading, candles, candles[Len(candles)].close)
                      evaluated == [fetched EXCEPT !.evaluated = TRUE]
                      signal == BTCSignalMonitor_TradingSignal(config.trading, candles,
                                                               r, now)
                  IN  IF r.raised
                      THEN EndTick([fetched EXCEPT !.outcome = "raised"])
                      ELSE IF ~r.should_signal
                      THEN EndTick([evaluated EXCEPT !.outcome = "nofire"])
                      ELSE IF SendSignalSinks(config.notifications) = <<>>
                      THEN EndTick([evaluated EXCEPT !.outcome = "fired", !.signal = signal,
                                      !.success = SendSignalResult(<<>>)])
                      ELSE /\ tick' = [evaluated EXCEPT !.outcome = "notifying",
                                                        !.signal = signal]
                           /\ pending' = SendSignalSinks(config.notifications)
                           /\ pc' = "notify"
                           /\ UNCHANGED wake
    /\ UNCHANGED <<program, config, now, last_signal, last_signal_time,
                   delivered_ts, harness, bot>>

SendSignal_SinkDone ==
    /\ program = "monitor"
    /\ pc = "notify"
    /\ \E outcome \in SinkOutcomes :
         LET ok == SendSinkReturns(outcome)
             results == Append(tick.results,
                               [sink |-> Head(pending), ok |-> ok, outcome |-> outcome])
             success == SendSignalResult(results)
             remaining == SendSignalRemaining(pending, ok)
         IN  IF remaining /= <<>>
             THEN /\ tick' = [tick EXCEPT !.results = results]
                  /\ pending' = remaining
                  /\ UNCHANGED <<pc, wake, last_signal_time>>
             ELSE /\ EndTick([tick EXCEPT !.results = results, !.outcome = "fired",
                                          !.success = success])
                  /\ last_signal_time' =
                         CheckAndSignalLastSignalTime(success, last_signal_time, now)
    /\ UNCHANGED <<program, config, now, last_signal, delivered_ts, harness, bot>>

Next ==
    \/ Tick
    \/ Run_Wake
    \/ RunOnce_Gate
    \/ RunOnce_Candles
    \/ RunOnce_CandlesRaise
    \/ Notify_SinkDone
    \/ Monitor_Wake
    \/ CheckAndSignal_Gate
    \/ CheckAndSignal_Candles
    \/ SendSignal_SinkDone

Spec == Init /\ [][Next]_vars

(***************************************************************************)
(* The driver loops running forever.  Only differences between instants    *)
(* matter to the program, and an elapsed time matters only up to the       *)
(* cooldown, so when the clock reaches MaxTime every instant is moved back  *)
(* by one, the oldest ones staying at 0 (MaxTime - 1 >= Cooldown).         *)
(***************************************************************************)
Shift(t) == IF t = None THEN None ELSE Max(t - 1, 0)

Rebase ==
    /\ now = MaxTime
    /\ now' = now - 1
    /\ wake' = Shift(wake)
    /\ last_signal' = Shift(last_signal)
    /\ last_signal_time' = Shift(last_signal_time)
    /\ delivered_ts' = Shift(delivered_ts)
    /\ tick' = [tick EXCEPT !.start = Shift(@), !.signal.timestamp = Shift(@)]
    /\ UNCHANGED <<program, config, pc, pending, harness, bot>>

\* a monitor with no sink, one sink or two sinks configured
LiveNotifications ==
    {n \in Notifications :
        /\ ~n.webhook_url /\ ~n.telegram_token /\ ~n.telegram_chat_id
        /\ n.discord_webhook => n.n8n_webhook}

InitLive ==
    /\ Init
    /\ config.notifications \in LiveNotifications

NextLive == Next \/ Rebase

\* the event loop runs every coroutine that can run: a sleep ends once its
\* time has come, an awaited request returns or fails, and time passes
SpecLive ==
    /\ InitLive
    /\ [][NextLive]_vars
    /\ WF_vars(Tick)
    /\ WF_vars(Rebase)
    /\ WF_vars(Run_Wake)
    /\ WF_vars(RunOnce_Gate)
    /\ WF_vars(RunOnce_Candles \/ RunOnce_CandlesRaise)
    /\ WF_vars(Notify_SinkDone)
    /\ WF_vars(Monitor_Wake)
    /\ WF_vars(CheckAndSignal_Gate)
    /\ WF_vars(CheckAndSignal_Candles)
    /\ WF_vars(SendSignal_SinkDone)

(***************************************************************************)
(* main.py: the run loop with Telegram commands enabled                    *)
(***************************************************************************)
MaxUpdates == 2       \* updates users send to the bot in one behaviour

\* the texts of the updates: two commands with handlers of their own and one
\* standing for /status, /help, /preco and any text that is no command
Commands == {"/setup", "/analise", "/help"}

\* get_updates: "offset": self.last_update_id + 1
GetUpdatesOffset(last_update_id) == last_update_id + 1

\* the updates Telegram holds with update_id >= offset, in increasing id order
UpdatesFrom(server, offset) ==
    LET AtOrAfter(u) == u.update_id >= offset
    IN  SelectSeq(server, AtOrAfter)

\* an update id recorded only once its command has been handled
PollLastUpdateId_AfterCommand(update_id, last_update_id, raised) ==
    IF raised THEN last_update_id ELSE update_id

\* poll: self.last_update_id = update.get("update_id", self.last_update_id),
\* assigned before process_command is awaited
PollLastUpdateId(update_id, last_update_id, raised) == update_id

\* _handle_setup: f"{trading.get(key, 0):,.2f}" raises TypeError on a None value
HandleSetupRaises(trading) ==
    \E k \in {"entry_zone_min", "entry_zone_max", "stop_loss", "tp1", "tp2", "tp3"} :
        k \in DOMAIN trading /\ trading[k] = None

\* process_command(message) raises: only _handle_setup has no try/except
\* around code that can fail
ProcessCommandRaises(text, trading) == text = "/setup" /\ HandleSetupRaises(trading)

\* an analysis that arms the gate like a delivered signal
HandleAnalysisLastSignal_Records(r, last, t) == IF r.should_signal THEN t ELSE last

\* _handle_analysis and _get_market_data assign nothing on the monitor
HandleAnalysisLastSignal(r, last, t) == last

\* a user sends a message to the bot: Telegram queues it under the next id
Telegram_Arrive ==
    /\ program = "main"
    /\ PollActive
    /\ Len(bot.server) < MaxUpdates
    /\ \E text \in Commands :
         bot' = [bot EXCEPT !.server = Append(@, [update_id |-> Len(@) + 1,
                                                  text |-> text])]
    /\ UNCHANGED <<program, config, now, pc, wake, last_signal, last_signal_time,
                   tick, pending, delivered_ts, harness>>

\* poll up to the return of get_updates: any prefix of the updates at or
\* after the offset (none on a timeout, an error or a non-200 answer)
Poll_GetUpdates ==
    /\ program = "main"
    /\ pc = "poll"
    /\ LET held == UpdatesFrom(bot.server, GetUpdatesOffset(bot.last_update_id))
       IN  \E k \in 0..Len(held) :
               /\ bot' = [bot EXCEPT !.batch = SubSeq(held, 1, k)]
               /\ pc' = IF k = 0 THEN "ready" ELSE "command"
    /\ UNCHANGED <<program, config, now, wake, last_signal, last_signal_time,
                   tick, pending, delivered_ts, harness>>

\* one turn of poll's for loop: record the id, then process_command.  An
\* exception leaves poll and is caught by run, which goes to sleep.
Poll_Process ==
    /\ program = "main"
    /\ pc = "command"
    /\ LET update == Head(bot.batch)
           raised == ProcessCommandRaises(update.text, config.trading)
           recorded == [bot EXCEPT
                          !.last_update_id = PollLastUpdateId(update.update_id, @, raised),
                          !.processed = Append(@, update.update_id)]
       IN  IF raised
           THEN /\ bot' = [recorded EXCEPT !.batch = <<>>]
                /\ pc' = "sleep"
                /\ wake' = now + config.check_interval
                /\ UNCHANGED last_signal
           ELSE IF update.text = "/analise"
           THEN \E d \in DriverSeries :
                   LET candles == Series(d)
                       r == IF RunOnceInsufficient(candles) THEN Raised
                            ELSE BTCMonitor_check_conditions(config.trading, candles,
                                                             candles[Len(candles)].close)
                   IN  /\ bot' = [recorded EXCEPT
                                    !.batch = Tail(@),
                                    !.analysis = [done |-> ~r.raised,
                                                  should_signal |-> r.should_signal,
                                                  armed |-> ~RunOnceCooling(last_signal, now,
                                                                 config.signal_cooldown)]]
                       /\ last_signal' = HandleAnalysisLastSignal(r, last_signal, now)
                       /\ pc' = IF Tail(bot.batch) = <<>> THEN "ready" ELSE "command"
                       /\ UNCHANGED wake
           ELSE /\ bot' = [recorded EXCEPT !.batch = Tail(@)]
                /\ pc' = IF Tail(bot.batch) = <<>> THEN "ready" ELSE "command"
                /\ UNCHANGED <<wake, last_signal>>
    /\ UNCHANGED <<program, config, now, last_signal_time, tick, pending,
                   delivered_ts, harness>>

\* TELEGRAM_BOT_TOKEN and TELEGRAM_CHAT_ID set, commands enabled; the
\* environment's trading values or the "conservative" preset (tp2 = None)
BotConfigs ==
    [check_interval : {CheckInterval}, signal_cooldown : {Cooldown},
     trading : {TradingFromEnv, TRADING_PRESETS.conservative},
     notifications : {n \in Notifications :
                         /\ n.telegram_token /\ n.telegram_chat_id
                         /\ ~n.webhook_url /\ ~n.discord_webhook /\ ~n.n8n_webhook}]

InitBot ==
    /\ program = "main"
    /\ config \in BotConfigs
    /\ now = 0
    /\ pc = "poll"
    /\ wake = 0
    /\ last_signal = None
    /\ last_signal_time = None
    /\ tick = NoTick
    /\ pending = <<>>
    /\ delivered_ts = None
    /\ input = NoInput
    /\ output = NoOutput
    /\ bot = [NoBot EXCEPT !.enabled = TRUE]

NextBot ==
    \/ Tick
    \/ Run_Wake
    \/ Telegram_Arrive
    \/ Poll_GetUpdates
    \/ Poll_Process
    \/ RunOnce_Gate
    \/ RunOnce_Candles
    \/ RunOnce_CandlesRaise
    \/ Notify_SinkDone

SpecBot == InitBot /\ [][NextBot]_vars

(***************************************************************************)
(* Evaluator harness: the pure functions applied to drawn inputs           *)
(***************************************************************************)
EvalSeries == [kind : Kinds, n : {2, 20, MinCandles}, hvol : {0, 100},
               last : LastNames, cvol : {0, 100, 200}]

EvalTradings == {TradingFromEnv, TRADING_PRESETS.conservative, TRADING_PRESETS.aggressive,
                 TRADING_PRESETS.scalp, TradingNoThreshold, TradingEmpty,
                 TradingStopAtMid, TradingStopAboveMid}

InitEval ==
    /\ program \in {"main", "monitor"}
    /\ config \in {c \in DriverConfigs : \A k \in DOMAIN c.notifications : ~c.notifications[k]}
    /\ now = 0
    /\ pc = "apply"
    /\ wake = 0
    /\ last_signal = None
    /\ last_signal_time = None
    /\ tick = NoTick
    /\ pending = <<>>
    /\ delivered_ts = None
    /\ input \in [series : EvalSeries, trading : EvalTradings]
    /\ output = NoOutput
    /\ bot = NoBot

driver == <<program, config, now, pc, wake, last_signal, last_signal_time,
            tick, pending, delivered_ts>>

InputCandles == Series(input.series)
InputPrice == InputCandles[Len(InputCandles)].close

Apply_check_conditions ==
    /\ program = "main" /\ pc = "apply" /\ output.fn = "none"
    /\ LET r == BTCMonitor_check_conditions(input.trading, InputCandles, InputPrice)
       IN  output' = [NoOutput EXCEPT !.fn = "check_conditions", !.result = r,
                                       !.pattern = r.pattern]
    /\ UNCHANGED <<driver, bot, input>>

Apply_detect ==
    /\ program = "main" /\ pc = "apply" /\ output.fn = "none"
    /\ output' = [NoOutput EXCEPT !.fn = "detect",
                                   !.pattern = PatternDetector_detect(InputCandles)]
    /\ UNCHANGED <<driver, bot, input>>

Apply_check_long_conditions ==
    /\ program = "monitor" /\ pc = "apply" /\ output.fn = "none"
    /\ LET r == TradingConditions_check_long_conditions(input.trading, InputCandles, InputPrice)
       IN  output' = [NoOutput EXCEPT !.fn = "check_long_conditions", !.result = r,
                                       !.pattern = r.pattern]
    /\ UNCHANGED <<driver, bot, input>>

Apply_detect_pattern ==
    /\ program = "monitor" /\ pc = "apply" /\ output.fn = "none"
    /\ output' = [NoOutput EXCEPT !.fn = "detect_pattern",
                                   !.pattern = CandlePatternDetector_detect_pattern(InputCandles)]
    /\ UNCHANGED <<driver, bot, input>>

\* the period arguments rsi is applied with: around each series length
RsiPeriods == {1, 2, RsiPeriod, 19, 20}

Apply_Indicators_rsi ==
    /\ program = "main" /\ pc = "apply" /\ output.fn = "none"
    /\ \E period \in RsiPeriods :
         output' = [NoOutput EXCEPT !.fn = "rsi", !.period = period,
                                    !.value = Indicators_rsi(Closes(InputCandles), period)]
    /\ UNCHANGED <<driver, bot, input>>

Apply_TechnicalIndicators_rsi ==
    /\ program = "monitor" /\ pc = "apply" /\ output.fn = "none"
    /\ \E period \in RsiPeriods :
         output' = [NoOutput EXCEPT !.fn = "rsi", !.period = period,
                                    !.value = TechnicalIndicators_rsi(Closes(InputCandles), period)]
    /\ UNCHANGED <<driver, bot, input>>

\* run_once past its evaluation: the signal it builds when the evaluator fires
Apply_BTCMonitor_TradingSignal ==
    /\ program = "main" /\ pc = "apply" /\ output.fn = "none"
    /\ ~RunOnceInsufficient(InputCandles)
    /\ LET r == BTCMonitor_check_conditions(input.trading, InputCandles, InputPrice)
       IN  /\ r.should_signal
           /\ output' = [NoOutput EXCEPT
                            !.fn = "signal", !.result = r, !.pattern = r.pattern,
                            !.signal = BTCMonitor_TradingSignal(input.trading, InputCandles,
                                                                r, now)]
    /\ UNCHANGED <<driver, bot, input>>

\* check_and_signal past its evaluation
Apply_BTCSignalMonitor_TradingSignal ==
    /\ program = "monitor" /\ pc = "apply" /\ output.fn = "none"
    /\ ~CheckAndSignalInsufficient(InputCandles)
    /\ LET r == TradingConditions_check_long_conditions(input.trading, InputCandles,
                                                       InputPrice)
       IN  /\ ~r.raised /\ r.should_signal
           /\ output' = [NoOutput EXCEPT
                            !.fn = "signal", !.result = r, !.pattern = r.pattern,
                            !.signal = BTCSignalMonitor_TradingSignal(input.trading,
                                                                      InputCandles, r, now)]
    /\ UNCHANGED <<driver, bot, input>>

\* the trading dicts load_config() can return among the drawn ones: all keys
\* present, every value a number read from the environment
EnvTradings == {TradingFromEnv, TradingNoThreshold, TradingStopAtMid, TradingStopAboveMid}

\* main() from load_config() to the construction of BTCMonitor
Apply_main ==
    /\ program = "main" /\ pc = "apply" /\ output.fn = "none"
    /\ input.trading \in EnvTradings
    /\ \E preset \in PresetNames :
         output' = [NoOutput EXCEPT !.fn = "main", !.preset = preset,
                                    !.trading = Main_ApplyPreset(input.trading, preset)]
    /\ UNCHANGED <<driver, bot, input>>

\* the sinks' signal.to_dict() on the signal just built
Apply_TradingSignal_to_dict ==
    /\ program = "main" /\ pc = "apply" /\ output.fn = "signal"
    /\ output' = [output EXCEPT !.fn = "to_dict",
                                 !.dict = TradingSignal_to_dict(output.signal)]
    /\ UNCHANGED <<driver, bot, input>>

Apply_Monitor_TradingSignal_to_dict ==
    /\ program = "monitor" /\ pc = "apply" /\ output.fn = "signal"
    /\ output' = [output EXCEPT !.fn = "to_dict",
                                 !.dict = Monitor_TradingSignal_to_dict(output.signal)]
    /\ UNCHANGED <<driver, bot, input>>

\* the single-candle detectors, applied to any candle of the series
Apply_PatternDetector_detect_hammer ==
    /\ program = "main" /\ pc = "apply" /\ output.fn = "none"
    /\ \E i \in DOMAIN InputCandles :
         output' = [NoOutput EXCEPT !.fn = "detect_hammer", !.candle = InputCandles[i],
                        !.flag = PatternDetector_detect_hammer(InputCandles[i])]
    /\ UNCHANGED <<driver, bot, input>>

Apply_CandlePatternDetector_detect_hammer ==
    /\ program = "monitor" /\ pc = "apply" /\ output.fn = "none"
    /\ \E i \in DOMAIN InputCandles :
         output' = [NoOutput EXCEPT !.fn = "detect_hammer", !.candle = InputCandles[i],
                        !.flag = CandlePatternDetector_detect_hammer(InputCandles[i])]
    /\ UNCHANGED <<driver, bot, input>>

Apply_PatternDetector_detect_pinbar ==
    /\ program = "main" /\ pc = "apply" /\ output.fn = "none"
    /\ \E i \in DOMAIN InputCandles :
         output' = [NoOutput EXCEPT !.fn = "detect_pinbar", !.candle = InputCandles[i],
                        !.flag = PatternDetector_detect_pinbar(InputCandles[i])]
    /\ UNCHANGED <<driver, bot, input>>

Apply_CandlePatternDetector_detect_pinbar_bullish ==
    /\ program = "monitor" /\ pc = "apply" /\ output.fn = "none"
    /\ \E i \in DOMAIN InputCandles :
         output' = [NoOutput EXCEPT !.fn = "detect_pinbar_bullish",
                        !.candle = InputCandles[i],
                        !.flag = CandlePatternDetector_detect_pinbar_bullish(InputCandles[i])]
    /\ UNCHANGED <<driver, bot, input>>

NextEval ==
    \/ Apply_main
    \/ Apply_PatternDetector_detect_hammer
    \/ Apply_CandlePatternDetector_detect_hammer
    \/ Apply_PatternDetector_detect_pinbar
    \/ Apply_CandlePatternDetector_detect_pinbar_bullish
    \/ Apply_TradingSignal_to_dict
    \/ Apply_Monitor_TradingSignal_to_dict
    \/ Apply_BTCMonitor_TradingSignal
    \/ Apply_BTCSignalMonitor_TradingSignal
    \/ Apply_check_conditions
    \/ Apply_detect
    \/ Apply_check_long_conditions
    \/ Apply_detect_pattern
    \/ Apply_Indicators_rsi
    \/ Apply_TechnicalIndicators_rsi

SpecEval == InitEval /\ [][NextEval]_vars

(***************************************************************************)
(* Properties of the cooldown gate (specification Spec)                    *)
(***************************************************************************)
\* the step in which a poll performs its cooldown check
GateStep == pc = "ready" /\ pc' /= "ready"

\* the step in which a tick that built a signal returns
FiredStep == tick'.outcome = "fired" /\ tick.outcome /= "fired"

GateChanged == last_signal' /= last_signal \/ last_signal_time' /= last_signal_time

\* C1: the cooldown timestamp changes only in the step that ends a tick whose
\* signal fired and whose notifier returned success, and it is then set to the
\* current instant; after a tick that fired without success the next poll's
\* cooldown check passes and the poll goes on to fetch candles.
C1_TimestampOnlyOnSuccess ==
    [][ /\ GateChanged =>
             /\ tick'.outcome = "fired"
             /\ tick'.signal.built
             /\ tick'.success
             /\ Gate' = now
        /\ (GateStep /\ tick.outcome = "fired" /\ ~tick.success) =>
             (pc' = "fetch" /\ tick'.outcome = "fetching")
      ]_vars

C1_Witness ==
    /\ tick.outcome = "fired"
    /\ tick.signal.built
    /\ tick.results /= <<>>
    /\ ~tick.success
    /\ Gate = None
    /\ pc = "sleep"

\* C2: when a tick that built a signal returns, the cooldown timestamp has
\* advanced to the current instant if and only if at least one sink reported
\* success, in both drivers; with no sink configured it does not advance.
C2_AdvanceIffAnySink ==
    [][ FiredStep => ((GateChanged /\ Gate' = now) <=> AnyOk(tick'.results)) ]_vars

FiresTable ==
    [p \in {"main", "monitor"} |->
       [t \in DriverTradings |->
          [d \in {x \in DriverSeries : x.n >= MinCandles} |->
             LET candles == Series(d)
                 price == candles[Len(candles)].close
             IN  IF p = "main"
                 THEN BTCMonitor_check_conditions(t, candles, price).should_signal
                 ELSE LET r == TradingConditions_check_long_conditions(t, candles, price)
                      IN  ~r.raised /\ r.should_signal]]]

\* C4: a poll whose cooldown check finds now - T >= cooldown (equality
\* included) goes on to fetch candles; a poll that evaluates builds a signal
\* exactly when the evaluator fires on the fetched series, whatever the
\* timestamp holds; and the timestamp never changes in a step other than the
\* return of a successfully notified tick (no timer resets it).
C4_LazyReopen ==
    [][ /\ (GateStep /\ Gate /= None /\ now - Gate >= config.signal_cooldown) =>
             (pc' = "fetch" /\ tick'.outcome = "fetching" /\ ~GateChanged)
        /\ (pc = "fetch" /\ tick'.evaluated) =>
             (tick'.signal.built <=> FiresTable[program][config.trading][tick'.series])
        /\ (now' /= now \/ pc' = "ready") => ~GateChanged
      ]_vars

C4_Witness ==
    /\ program = "main"
    /\ pc = "notify"
    /\ tick.signal.built
    /\ last_signal /= None
    /\ tick.start - last_signal = config.signal_cooldown

\* C5: a signal accepted by some sink carries a timestamp at least cooldown
\* after the timestamp of every earlier signal that some sink accepted.
C5_DeliveredSignalsSeparated ==
    (Accepted(tick) /\ delivered_ts /= None) =>
        tick.signal.timestamp - delivered_ts >= config.signal_cooldown

\* C8: a tick whose fetch returned fewer than 50 candles (none included) ends
\* as "insufficient": not evaluated, no signal, no sink attempted, no
\* exception, timestamp unchanged, loop asleep.
C8_InsufficientData ==
    [][ (tick'.fetched /\ tick'.series.n < MinCandles) =>
          /\ tick'.outcome = "insufficient"
          /\ ~tick'.evaluated
          /\ ~tick'.signal.built
          /\ tick'.results = <<>>
          /\ pending' = <<>>
          /\ (pc = "fetch" => pc' = "sleep")
          /\ ~GateChanged
      ]_vars

C8_Witness ==
    /\ tick.outcome = "insufficient"
    /\ tick.fetched
    /\ tick.series.n = MinCandles - 1
    /\ pc = "sleep"

(***************************************************************************)
(* Properties of the evaluators and detectors (specification SpecEval)     *)
(***************************************************************************)
\* an evaluator was applied and returned its tuple
Evaluated == output.fn \in {"check_conditions", "check_long_conditions"} /\ ~output.result.raised

\* the thresholds the evaluator reads from its trading configuration
InputMinConditions == Get(input.trading, "min_conditions", DefaultMinConditions)
InputMinConfidence == Get(input.trading, "min_confidence", DefaultMinConfidence)

\* C6: whenever the pattern an evaluator detected is not HAMMER,
\* BULLISH_ENGULFING or PINBAR_BULLISH, its fire decision is false, whatever
\* the condition count, the confidence and the configured thresholds are.
C6_PatternGateDominates ==
    (Evaluated /\ output.result.pattern \notin {"HAMMER", "BULLISH_ENGULFING", "PINBAR_BULLISH"})
        => ~output.result.should_signal

C6_Witness ==
    /\ output.fn = "check_conditions"
    /\ ~output.result.raised
    /\ output.result.pattern = "DOJI"
    /\ Len(output.result.conditions) >= InputMinConditions
    /\ output.result.confidence >= InputMinConfidence
    /\ InputMinConditions > 0
    /\ ~output.result.should_signal

\* C7: the fire decision an evaluator returns is true exactly when the number
\* of conditions is >= min_conditions, the confidence is >= min_confidence and
\* the pattern is one of the three bullish patterns, all together.
C7_FireIffAllThree ==
    Evaluated =>
        (output.result.should_signal <=>
            /\ Len(output.result.conditions) >= InputMinConditions
            /\ output.result.confidence >= InputMinConfidence
            /\ output.result.pattern \in {"HAMMER", "BULLISH_ENGULFING", "PINBAR_BULLISH"})

C7_Witness ==
    /\ output.fn = "check_long_conditions"
    /\ ~output.result.raised
    /\ output.result.should_signal
    /\ output.result.confidence = InputMinConfidence
    /\ InputMinConfidence > 0

\* a detector was applied to a series of at least two candles whose last
\* candle passes that detector's own hammer test and its own pinbar test
HammerAndPinbar ==
    /\ Len(InputCandles) >= 2
    /\ \/ /\ output.fn = "detect"
          /\ PatternDetector_detect_hammer(InputCandles[Len(InputCandles)])
          /\ PatternDetector_detect_pinbar(InputCandles[Len(InputCandles)])
       \/ /\ output.fn = "detect_pattern"
          /\ CandlePatternDetector_detect_hammer(InputCandles[Len(InputCandles)])
          /\ CandlePatternDetector_detect_pinbar_bullish(InputCandles[Len(InputCandles)])

BullishEngulfs ==
    PatternDetector_detect_engulfing(InputCandles[Len(InputCandles)],
                                     InputCandles[Len(InputCandles) - 1])

BearishEngulfs ==
    CandlePatternDetector_detect_bearish_engulfing(InputCandles[Len(InputCandles)],
                                                   InputCandles[Len(InputCandles) - 1])

C10_ConfidenceWithin100 ==
    Evaluated => (0 <= output.result.confidence /\ output.result.confidence <= 100)

\* the nine volumes preceding the last candle's are all zero
PrecedingVolumesZero ==
    /\ Len(InputCandles) >= 10
    /\ \A i \in (Len(InputCandles) - 9)..(Len(InputCandles) - 1) : InputCandles[i].volume = 0

\* the members of a list
Members(xs) == {xs[i] : i \in DOMAIN xs}

\* C11: on a window of at least 50 candles whose nine volumes preceding the
\* last are all zero, an evaluator returns normally and the volume condition
\* is not among the triggered conditions, whatever the last volume is.
C11_ZeroVolumeSkipped ==
    (/\ output.fn \in {"check_conditions", "check_long_conditions"}
     /\ Len(InputCandles) >= MinCandles
     /\ PrecedingVolumesZero)
        => (~output.result.raised /\ "volume" \notin Members(output.result.conditions))

\* the last candle of the series a detector was applied to
LastCandle == InputCandles[Len(InputCandles)]

\* C12: a detector applied to a series whose last candle has range = 0 finds
\* neither doji nor pinbar in it, and one whose last candle has body = 0 finds
\* no hammer in it; a last candle with open = high = low = close that is in no
\* engulfing pair is classified NONE.  Both detectors.
C12_DegenerateCandles ==
    /\ output.fn = "detect" =>
          /\ range(LastCandle) = 0 =>
                (~PatternDetector_detect_doji(LastCandle) /\ ~PatternDetector_detect_pinbar(LastCandle))
          /\ body(LastCandle) = 0 => ~PatternDetector_detect_hammer(LastCandle)
          /\ (range(LastCandle) = 0 /\ body(LastCandle) = 0 /\ ~BullishEngulfs) =>
                output.pattern = "NONE"
    /\ output.fn = "detect_pattern" =>
          /\ range(LastCandle) = 0 =>
                /\ ~CandlePatternDetector_detect_doji(LastCandle)
                /\ ~CandlePatternDetector_detect_pinbar_bullish(LastCandle)
          /\ body(LastCandle) = 0 => ~CandlePatternDetector_detect_hammer(LastCandle)
          /\ (range(LastCandle) = 0 /\ body(LastCandle) = 0 /\ ~BullishEngulfs /\ ~BearishEngulfs) =>
                output.pattern = "NONE"

C12_Witness ==
    /\ output.fn = "detect"
    /\ Len(InputCandles) >= 2
    /\ range(LastCandle) = 0
    /\ body(LastCandle) = 0
    /\ output.pattern = "NONE"

(***************************************************************************)
(* Properties of the notifier and of the driver loop (specification Spec)  *)
(***************************************************************************)
\* the sinks the configuration names
ConfiguredSinks ==
    {k \in {"webhook", "telegram", "discord", "n8n"} :
        \/ k = "webhook" /\ config.notifications.webhook_url
        \/ k = "telegram" /\ config.notifications.telegram_token
                          /\ config.notifications.telegram_chat_id
        \/ k = "discord" /\ config.notifications.discord_webhook
        \/ k = "n8n" /\ config.notifications.n8n_webhook}

\* C13: while a signal is being notified no sink has been attempted twice and
\* the tick has not raised; when the notifier has returned, every configured
\* sink has been attempted exactly once, whatever the earlier sinks answered;
\* a sink that rejected or raised has the result False.
C13_EverySinkAttemptedOnce ==
    tick.signal.built =>
        /\ tick.outcome \in {"notifying", "fired"}
        /\ \A i, j \in DOMAIN tick.results :
               tick.results[i].sink = tick.results[j].sink => i = j
        /\ \A i \in DOMAIN tick.results :
               /\ tick.results[i].sink \in ConfiguredSinks
               /\ tick.results[i].outcome \in {"rejected", "raised"} => ~tick.results[i].ok
        /\ tick.outcome = "fired" =>
               {tick.results[i].sink : i \in DOMAIN tick.results} = ConfiguredSinks

C13_Witness ==
    /\ tick.outcome = "fired"
    /\ Len(tick.results) = 3
    /\ tick.results[1].outcome = "raised"
    /\ tick.results[2].outcome = "rejected"
    /\ tick.results[3].outcome = "accepted"

\* C14: a tick that raised has left the loop asleep until the check interval
\* has passed, never stopped; under the event loop's fairness a raised tick is
\* followed by the start of another tick, and ticks are started again and
\* again forever.  (Specification SpecLive.)
C14_LoopNeverStops ==
    /\ [](tick.outcome = "raised" => pc \in {"sleep", "ready"})
    /\ [][(tick'.outcome = "raised" /\ tick.outcome /= "raised") =>
             (pc' = "sleep" /\ wake' = now + config.check_interval)]_vars
    /\ (tick.outcome = "raised") ~> (tick.outcome \in {"cooling", "fetching"})
    /\ []<><<GateStep>>_vars

C14_Witness ==
    /\ tick.outcome = "raised"
    /\ pc = "sleep"
    /\ wake = now + config.check_interval

\* C15: while a sink attempt for the tick's signal is pending the cooldown
\* timestamp has not been advanced for that signal, and the step that writes
\* the timestamp is one after which every configured sink has its result and
\* none is pending.  Both drivers.
C15_JoinBarrier ==
    /\ [](tick.outcome = "notifying" =>
            /\ pending /= <<>>
            /\ (Gate = None \/ Gate < tick.signal.timestamp))
    /\ [][GateChanged =>
            /\ pending' = <<>>
            /\ tick'.outcome = "fired"
            /\ {tick'.results[i].sink : i \in DOMAIN tick'.results} = ConfiguredSinks]_vars

C15_Witness ==
    /\ tick.outcome = "notifying"
    /\ Len(tick.results) >= 1
    /\ tick.results[1].ok
    /\ pending /= <<>>
    /\ Gate = None

\* a tick that has returned to the loop, or none yet
Returned(tk) == tk.outcome \in {"idle", "cooling", "insufficient", "nofire", "fired", "raised"}

\* C16: a tick is in flight exactly while the loop is inside run_once /
\* check_and_signal; a new tick performs its cooldown check only when the
\* previous tick has returned with no sink pending, and by then a successful
\* delivery of the previous tick is recorded in the cooldown timestamp.
C16_SingleEvaluationInFlight ==
    /\ []((pc \in {"fetch", "notify"}) <=> ~Returned(tick))
    /\ [][GateStep =>
            /\ Returned(tick)
            /\ pending = <<>>
            /\ (tick.outcome = "fired" /\ tick.success) =>
                   (Gate /= None /\ Gate >= tick.signal.timestamp)]_vars

C16_Witness ==
    /\ program = "main"
    /\ pc = "fetch"
    /\ tick.outcome = "fetching"
    /\ last_signal /= None
    /\ delivered_ts = last_signal
    /\ tick.start - last_signal >= config.signal_cooldown

(***************************************************************************)
(* Properties of the indicators (specification SpecEval)                   *)
(***************************************************************************)
\* none of the last `period` price changes is a fall
NoLoss(prices, period) ==
    \A i \in 1..(Len(prices) - 1) : i > Len(prices) - 1 - period => prices[i + 1] >= prices[i]

\* C17: rsi applied to fewer than period+1 prices returns None; applied to at
\* least period+1 prices it returns a value in [0,100], and exactly 100 when
\* the last `period` changes hold no loss (a flat sequence included).
C17_RsiRange ==
    output.fn = "rsi" =>
        IF Len(Closes(InputCandles)) < output.period + 1
        THEN ~output.value.some
        ELSE /\ output.value.some
             /\ output.value.den > 0
             /\ 0 <= output.value.num
             /\ output.value.num <= 100 * output.value.den
             /\ NoLoss(Closes(InputCandles), output.period) =>
                    output.value.num = 100 * output.value.den

C17_Witness ==
    /\ output.fn = "rsi"
    /\ output.period = RsiPeriod
    /\ input.series.kind = "flat"
    /\ input.series.last = "flatc"
    /\ Len(InputCandles) = 20
    /\ output.value = SomeQ(100, 1)

(***************************************************************************)
(* Signal assembly (specification SpecEval)                                *)
(***************************************************************************)
\* a quotient in lowest terms, and the risk and reward of a signal, both
\* over the denominator 2 * (least common denominator of the entry bounds)
QReduce(q) == LET g == GCD(IF q.num < 0 THEN -q.num ELSE q.num, q.den)
              IN  SomeQ(q.num \div g, q.den \div g)
SignalMid2(sig) == QSum(sig.entry_zone_min, sig.entry_zone_max)
SignalRisk2(sig) == SignalMid2(sig).num - 2 * SignalMid2(sig).den * sig.stop_loss
SignalReward2(sig) == 2 * SignalMid2(sig).den * sig.take_profit_1 - SignalMid2(sig).num

\* C18: every signal built carries risk_reward_ratio = reward / risk when
\* risk = midpoint - stop_loss is positive and 0 otherwise, where
\* reward = tp1 - midpoint; the ratio never has a zero or negative denominator.
C18_RiskReward ==
    output.fn = "signal" =>
        /\ output.signal.built
        /\ output.signal.risk_reward_ratio.some
        /\ output.signal.risk_reward_ratio.den > 0
        /\ IF SignalRisk2(output.signal) > 0
           THEN QReduce(output.signal.risk_reward_ratio)
                  = QReduce(SomeQ(SignalReward2(output.signal), SignalRisk2(output.signal)))
           ELSE output.signal.risk_reward_ratio.num = 0

\* a signal whose stop-loss sits exactly on the entry midpoint
C18_Witness ==
    /\ output.fn = "signal"
    /\ SignalRisk2(output.signal) = 0
    /\ output.signal.risk_reward_ratio = SomeQ(0, 1)

C18_WitnessAbove ==
    /\ output.fn = "signal"
    /\ SignalRisk2(output.signal) < 0

C18_WitnessFib ==
    /\ output.fn = "signal"
    /\ program = "monitor"
    /\ output.signal.entry_zone_min.den > 1
    /\ SignalRisk2(output.signal) > 0
    /\ output.signal.risk_reward_ratio.num /= 0

(***************************************************************************)
(* Presets (specification SpecEval)                                        *)
(***************************************************************************)
\* C19: after main() applies a preset named in TRADING_PRESETS, the trading
\* configuration has exactly the eight trading parameters and each equals the
\* preset's value, whatever the environment had loaded; with an unset, empty
\* or unknown preset name the loaded configuration is unchanged.
C19_PresetWholesale ==
    output.fn = "main" =>
        IF output.preset \in DOMAIN TRADING_PRESETS
        THEN /\ DOMAIN output.trading = TradingKeys
             /\ \A k \in TradingKeys : output.trading[k] = TRADING_PRESETS[output.preset][k]
        ELSE output.trading = input.trading

\* a preset with null targets applied over an environment that set them
C19_Witness ==
    /\ output.fn = "main"
    /\ output.preset = "scalp"
    /\ input.trading = TradingNoThreshold
    /\ \A k \in TradingKeys : input.trading[k] /= TRADING_PRESETS.scalp[k]
    /\ output.trading.tp3 = None

C19_WitnessUnknown ==
    /\ output.fn = "main"
    /\ output.preset = "turbo"
    /\ output.trading = input.trading

(***************************************************************************)
(* Serialisation (specification SpecEval)                                  *)
(***************************************************************************)
\* the instant an isoformat text denotes
FromIsoFormat(text) == text[2]

\* equality of two Optional[float] values
SameNumber(a, b) == a.some = b.some /\ (a.some => QReduce(a) = QReduce(b))

\* C20: the fields read back from to_dict's output equal the fields the
\* signal held: type, symbol, entry zone, stop-loss, the three take-profits
\* (null ones included), pattern, confidence, conditions in order, timeframe,
\* current price, risk-reward ratio, notes and the timestamp.
C20_RoundTrip ==
    output.fn = "to_dict" =>
        /\ output.dict.signal_type = output.signal.signal_type
        /\ output.dict.symbol = output.signal.symbol
        /\ SameNumber(output.dict.entry_zone.min, output.signal.entry_zone_min)
        /\ SameNumber(output.dict.entry_zone.max, output.signal.entry_zone_max)
        /\ output.dict.stop_loss = output.signal.stop_loss
        /\ output.dict.take_profits.tp1 = output.signal.take_profit_1
        /\ output.dict.take_profits.tp2 = output.signal.take_profit_2
        /\ output.dict.take_profits.tp3 = output.signal.take_profit_3
        /\ output.dict.pattern = output.signal.pattern
        /\ output.dict.confidence_score = output.signal.confidence
        /\ output.dict.conditions_met = output.signal.conditions
        /\ FromIsoFormat(output.dict.timestamp) = output.signal.timestamp
        /\ output.dict.timeframe = output.signal.timeframe
        /\ output.dict.current_price = output.signal.current_price
        /\ SameNumber(output.dict.risk_reward_ratio, output.signal.risk_reward_ratio)
        /\ output.dict.notes = output.signal.notes

\* the same round trip with the risk-reward ratio left out
C20_RoundTripButRatio ==
    output.fn = "to_dict" =>
        /\ output.dict.signal_type = output.signal.signal_type
        /\ output.dict.symbol = output.signal.symbol
        /\ SameNumber(output.dict.entry_zone.min, output.signal.entry_zone_min)
        /\ SameNumber(output.dict.entry_zone.max, output.signal.entry_zone_max)
        /\ output.dict.stop_loss = output.signal.stop_loss
        /\ output.dict.take_profits.tp1 = output.signal.take_profit_1
        /\ output.dict.take_profits.tp2 = output.signal.take_profit_2
        /\ output.dict.take_profits.tp3 = output.signal.take_profit_3
        /\ output.dict.pattern = output.signal.pattern
        /\ output.dict.confidence_score = output.signal.confidence
        /\ output.dict.conditions_met = output.signal.conditions
        /\ FromIsoFormat(output.dict.timestamp) = output.signal.timestamp
        /\ output.dict.timeframe = output.signal.timeframe
        /\ output.dict.current_price = output.signal.current_price
        /\ output.dict.notes = output.signal.notes

(***************************************************************************)
(* RSI conditions of the evaluators (specification SpecEval)               *)
(***************************************************************************)
\* the RSI check_conditions computes on the drawn series
InputRsiMain == Indicators_rsi(Closes(InputCandles), RsiPeriod)

InBand(q, lo, hi) == q.some /\ QLe(QInt(lo), q) /\ QLt(q, QInt(hi))

\* C21: check_conditions triggers the support-zone condition exactly when
\* 30 <= rsi < 50 and the neutral condition exactly when 50 <= rsi < 70
\* (rsi = 50 is neutral), and never both.
C21_RsiBands ==
    output.fn = "check_conditions" =>
        /\ ("rsi_support" \in Members(output.result.conditions))
              <=> InBand(InputRsiMain, 30, 50)
        /\ ("rsi_neutral" \in Members(output.result.conditions))
              <=> InBand(InputRsiMain, 50, 70)
        /\ ~ ({"rsi_support", "rsi_neutral"} \subseteq Members(output.result.conditions))

\* the same bands with 50 moved to the support zone, as the code has them
C21_RsiBandsClosedAt50 ==
    output.fn = "check_conditions" =>
        /\ ("rsi_support" \in Members(output.result.conditions))
              <=> (InputRsiMain.some /\ QLe(QInt(30), InputRsiMain)
                                        /\ QLe(InputRsiMain, QInt(50)))
        /\ ("rsi_neutral" \in Members(output.result.conditions))
              <=> (InBand(InputRsiMain, 50, 70) /\ QLt(QInt(50), InputRsiMain))

\* the RSI check_long_conditions computes on the drawn series
InputRsiMonitor == TechnicalIndicators_rsi(Closes(InputCandles), RsiPeriod)

\* C22: check_long_conditions triggers the not-overbought condition, one
\* condition of weight 5, for every series whose RSI is available and
\* strictly below 70, the RSI value 0 of an all-falling window included.
C22_NotOverbought ==
    (output.fn = "check_long_conditions" /\ ~output.result.raised
       /\ InputRsiMonitor.some /\ QLt(InputRsiMonitor, QInt(70)))
    => "not_overbought" \in Members(output.result.conditions)

\* the same for every RSI strictly between 0 and 70
C22_NotOverboughtAboveZero ==
    (output.fn = "check_long_conditions" /\ ~output.result.raised
       /\ InputRsiMonitor.some /\ QLt(QInt(0), InputRsiMonitor)
       /\ QLt(InputRsiMonitor, QInt(70)))
    => "not_overbought" \in Members(output.result.conditions)

(***************************************************************************)
(* Trend conditions on a short history (specification SpecEval)            *)
(***************************************************************************)
\* the weight check_conditions adds with each condition string
MainWeightOf(c) ==
    IF c \in {"entry_zone", "pattern"} THEN 25
    ELSE IF c \in {"above_sma21", "rsi_support"} THEN 15
    ELSE IF c \in {"doji", "trend_up", "volume"} THEN 10
    ELSE 5

MainWeights(conditions) == Sum([i \in DOMAIN conditions |-> MainWeightOf(conditions[i])])

ShortForSma == Len(InputCandles) < 21

\* C23: on a series too short for sma7 or sma21, check_conditions returns
\* without error, neither trend condition is in the list, the confidence is
\* the sum of the weights of the remaining conditions, and the decision is
\* the count, confidence and pattern test on those alone.
C23_ShortHistorySkipsTrend ==
    (output.fn = "check_conditions" /\ ShortForSma) =>
        /\ ~output.result.raised
        /\ "above_sma21" \notin Members(output.result.conditions)
        /\ "trend_up" \notin Members(output.result.conditions)
        /\ output.result.confidence = MainWeights(output.result.conditions)
        /\ output.result.should_signal <=>
              /\ Len(output.result.conditions) >= InputMinConditions
              /\ output.result.confidence >= InputMinConfidence
              /\ output.result.pattern \in bullish_patterns

\* twenty candles, sma7 available and sma21 not, firing at the default thresholds
C23_Witness ==
    /\ output.fn = "check_conditions"
    /\ Len(InputCandles) = 20
    /\ input.trading = TradingFromEnv
    /\ Indicators_sma(Closes(InputCandles), 7).some
    /\ ~Indicators_sma(Closes(InputCandles), 21).some
    /\ output.result.should_signal

(***************************************************************************)
(* Order of the condition strings (specification SpecEval)                 *)
(***************************************************************************)
\* the place of each condition in check_conditions' sequence of tests
MainRank(c) ==
    IF c = "entry_zone" THEN 1
    ELSE IF c \in {"pattern", "doji"} THEN 2
    ELSE IF c = "above_sma21" THEN 3
    ELSE IF c = "trend_up" THEN 4
    ELSE IF c \in {"rsi_support", "rsi_neutral"} THEN 5
    ELSE IF c = "volume" THEN 6
    ELSE 7

InEvaluationOrder(conditions) ==
    \A i, j \in DOMAIN conditions :
        i < j => MainRank(conditions[i]) < MainRank(conditions[j])

\* C24: the conditions check_conditions returns are in evaluation order
\* (entry zone, pattern, price above SMA21, trend up, RSI, volume), and the
\* list on the TradingSignal run_once builds is that list unchanged.
C24_EvaluationOrder ==
    program = "main" =>
        /\ output.fn \in {"check_conditions", "signal", "to_dict"} =>
              InEvaluationOrder(output.result.conditions)
        /\ output.fn \in {"signal", "to_dict"} =>
              /\ output.signal.conditions = output.result.conditions
              /\ output.result = BTCMonitor_check_conditions(input.trading, InputCandles,
                                                              InputPrice)

\* a signal with all six conditions, where lighter ones precede heavier ones
C24_Witness ==
    /\ program = "main"
    /\ output.fn = "signal"
    /\ Len(output.signal.conditions) = 6
    /\ \E i, j \in DOMAIN output.signal.conditions :
          /\ i < j
          /\ MainWeightOf(output.signal.conditions[i])
                < MainWeightOf(output.signal.conditions[j])

(***************************************************************************)
(* The instant the gate records (specification Spec)                       *)
(***************************************************************************)
\* C25: after a tick whose signal was delivered with success, the timestamp
\* held by the cooldown gate equals the timestamp stamped on that signal.
C25_GateRecordsSignalTimestamp ==
    (tick.outcome = "fired" /\ tick.success) => Gate = tick.signal.timestamp

\* the gate never holds an instant earlier than the delivered signal's own
C25_GateNotBeforeSignal ==
    (tick.outcome = "fired" /\ tick.success) => Gate >= tick.signal.timestamp

(***************************************************************************)
(* Single-candle detectors (specification SpecEval)                        *)
(***************************************************************************)
\* body > 0, lower wick >= 2 body, upper wick < body
HammerShape(c) == body(c) > 0 /\ lower_wick(c) >= 2 * body(c) /\ upper_wick(c) < body(c)

\* C26: PatternDetector.detect_hammer is true exactly for candles with
\* body > 0, lower wick >= 2 body and upper wick < body, and
\* CandlePatternDetector.detect_hammer exactly for those of them whose lower
\* wick exceeds the upper wick; a candle with lower wick = 2 body and upper
\* wick between 0.5 and 1 body is a Hammer for PatternDetector.
C26_HammerShape ==
    output.fn = "detect_hammer" =>
        IF program = "main"
        THEN output.flag <=> HammerShape(output.candle)
        ELSE output.flag <=> (HammerShape(output.candle)
                                /\ lower_wick(output.candle) > upper_wick(output.candle))

\* the stricter variant alone
C26_HammerShapeMonitor ==
    (output.fn = "detect_hammer" /\ program = "monitor") =>
        (output.flag <=> (HammerShape(output.candle)
                            /\ lower_wick(output.candle) > upper_wick(output.candle)))

\* C27: on every candle PatternDetector.detect_pinbar and
\* CandlePatternDetector.detect_pinbar_bullish return the same result.
C27_PinbarDetectorsAgree ==
    /\ output.fn = "detect_pinbar" =>
          (output.flag <=> CandlePatternDetector_detect_pinbar_bullish(output.candle))
    /\ output.fn = "detect_pinbar_bullish" =>
          (output.flag <=> PatternDetector_detect_pinbar(output.candle))

\* a pinbar found by the two-test detector
C27_Witness ==
    /\ output.fn = "detect_pinbar_bullish"
    /\ output.flag
    /\ body(output.candle) > 0
    /\ upper_wick(output.candle) > 0

\* a candle with a lower wick under 0.6 of its range, refused by both
C27_WitnessRefused ==
    /\ output.fn = "detect_pinbar_bullish"
    /\ ~output.flag
    /\ lower_wick(output.candle) > 0

(***************************************************************************)
(* Telegram commands in the run loop (specification SpecBot)               *)
(***************************************************************************)
\* the step in which poll handles one update
CommandStep == pc = "command" /\ bot'.processed /= bot.processed

\* C28: every iteration of run that polls Telegram goes on to run_once:
\* from the polling stage the loop never passes to its sleep without an
\* evaluation, whatever happened while a command was processed.
C28_PollNeverSkipsRunOnce ==
    [][ (pc \in {"poll", "command"}) => (pc' \in {"poll", "command", "ready"}) ]_vars

\* the same for iterations in which no command raises
C28_QuietPollReachesRunOnce ==
    [][ (pc \in {"poll", "command"}
           /\ ~(pc = "command"
                  /\ ProcessCommandRaises(Head(bot.batch).text, config.trading)))
        => pc' \in {"poll", "command", "ready"} ]_vars

\* C29: no update id is handed to process_command twice, over any sequence
\* of polls; the step that handles an update records its id in
\* last_update_id whether or not the command raises, and every update poll
\* holds has an id of at least last_update_id + 1 when it is fetched.
C29_UpdatesAtMostOnce ==
    /\ [](\A i, j \in DOMAIN bot.processed :
             i /= j => bot.processed[i] /= bot.processed[j])
    /\ [][ CommandStep =>
             /\ bot'.last_update_id = Head(bot.batch).update_id
             /\ bot'.processed = Append(bot.processed, Head(bot.batch).update_id) ]_vars
    /\ [][ (pc = "poll" /\ pc' = "command") =>
             \A i \in DOMAIN bot'.batch :
                 bot'.batch[i].update_id >= bot.last_update_id + 1 ]_vars

\* a /setup that raised on the preset's null targets, and the next update
\* handled by a later poll
C29_Witness ==
    /\ config.trading = TRADING_PRESETS.conservative
    /\ Len(bot.server) = 2
    /\ bot.server[1].text = "/setup"
    /\ bot.processed = <<1, 2>>
    /\ bot.last_update_id = 2

\* C30: handling /analise changes neither last_signal nor the notifier's
\* state: no sink is attempted and no notification started, whatever the
\* candles and whatever check_conditions decides, gate armed or cooling.
C30_AnalysisLeavesGate ==
    [][ (CommandStep /\ Head(bot.batch).text = "/analise") =>
           /\ last_signal' = last_signal
           /\ tick' = tick
           /\ pending' = pending
           /\ pending' = <<>>
           /\ pc' \in {"command", "ready"} ]_vars

\* an analysis whose evaluation fired while the gate was cooling
C30_Witness ==
    /\ bot.analysis.done
    /\ bot.analysis.should_signal
    /\ ~bot.analysis.armed
    /\ last_signal /= None

C30_WitnessArmed ==
    /\ bot.analysis.done
    /\ bot.analysis.should_signal
    /\ bot.analysis.armed
    /\ last_signal = None

====
